---- MODULE Spec2Model ----
(***************************************************************************)
(* Model of the analysis pipeline of the OMERO user scripts                *)
(* Colocalisation_Analyser.py and Correlation_Analyser.py: run() and the   *)
(* functions it calls (check_parameters, extract_images, run_imagej,       *)
(* extract_results, upload_results, create_report, email_results).         *)
(*                                                                         *)
(* Conventions of the model                                                *)
(*   - an image is its OMERO id (a positive number); NoneImg (0) stands    *)
(*     for a None entry of the image list;                                 *)
(*   - a channel selector is a string; "" stands for a selector that is    *)
(*     None or empty (both are false in `if params[PARAM_CHANNEL3]`);      *)
(*   - a line of the tool's standard output is a record [k, id, v]: k is   *)
(*     the shape the parsers' patterns tell apart, id the image id of the  *)
(*     '<id>.ome.tif' file name it carries (0 when it carries none) and v  *)
(*     a tag for the rest of its text;                                     *)
(*   - a file is a record [dir, t, id]: the directory it is in, its kind   *)
(*     and the image id its name is built from (0 when there is none).     *)
(***************************************************************************)
EXTENDS Integers, Sequences, FiniteSets, TLC

(***************************************************************************)
(* Bounds                                                                  *)
(***************************************************************************)
\* longest identifier list given to run()
MaxIds == 2
\* longest captured standard output, in lines
MaxLines == 3

\* most channels of the image find_channel_index is applied to on its own
MaxChannels == 3
\* longest standard output given to extract_results on its own, in lines
MaxParseLines == 6

\* longest e-mail address given to validate_email on its own, in characters
MaxAddress == 6

\* the longest image stream the export loop is run on
MaxStream == 5

\* the chunk size of the export loop (1000000 in the scripts), scaled down
ChunkSize == 2

\* the most original files the server holds for one image
MaxOrigFiles == 2

(***************************************************************************)
(* The server: images, their channels and dimensions, datasets             *)
(***************************************************************************)
VARIABLES
    sizer,          \* Image_Size.run and Check_Images.run: the parameters, the
                    \* image list, the loop position and the totals
    exporter,       \* the chunked export loop of extract_images applied on its
                    \* own: the stream, the offset, the file and the requests
    probe,          \* find_channel_index applied on its own: its image, its
                    \* selector and what it and check_parameters returned
    parse,          \* extract_results applied on its own: the lines, the
                    \* position of the loop and the locals of the function
    client,         \* run_as_script: the e-mail addresses, the position in
                    \* the function and the output message
    duo             \* two runs interleaved in one process: the module global
                    \* tmp_dir, each run's position and the directories used

NoneImg == 0

\* the image find_channel_index is applied to on its own
ProbeImg == 9

\* the images of the server
ImageIds == {1, 2}

\* the datasets of the server
DatasetIds == {1, 2}

\* ids a caller may pass: id 3 names no image and no dataset
RequestIds == {1, 2, 3}

\* img.getChannels(), as the channel names in channel order
getChannels(img) ==
    CASE img = 1 -> <<"DAPI", "GFP">>
      [] img = 2 -> <<"DAPI", "GFP", "RFP">>
      [] OTHER -> probe.chs

getSizeC(img) == Len(getChannels(img))

getSizeZ(img) == IF img = 2 THEN 2 ELSE 1

getSizeT(img) == IF img = 1 THEN 2 ELSE 1

\* ds.listChildren(): image 2 is in both datasets
listChildren(ds) ==
    CASE ds = 1 -> <<1, 2>>
      [] ds = 2 -> <<2>>
      [] OTHER -> <<>>

(***************************************************************************)
(* Python helpers                                                          *)
(***************************************************************************)
\* str(n) for the small positive numbers the model meets
str(n) ==
    CASE n = 1 -> "1"
      [] n = 2 -> "2"
      [] n = 3 -> "3"
      [] n = 4 -> "4"
      [] n = 5 -> "5"
      [] OTHER -> "?"

RECURSIVE SeqToSet(_)
SeqToSet(s) == IF s = <<>> THEN {} ELSE {Head(s)} \cup SeqToSet(Tail(s))

\* the sequences over S of length at most n
SeqsUpTo(S, n) == UNION {[1..k -> S] : k \in 0..n}

\* variant of the dict assignment that keeps the value of a key already set
DictPut_KeepsOld(d, k, v) ==
    [x \in (DOMAIN d) \cup {k} |-> IF x \in DOMAIN d THEN d[x] ELSE v]

\* dict assignment d[k] = v
DictPut(d, k, v) == [x \in (DOMAIN d) \cup {k} |-> IF x = k THEN v ELSE d[x]]

EmptyDict == <<>>

(***************************************************************************)
(* find_channel_index (Colocalisation_Analyser.py)                         *)
(***************************************************************************)
\* variant of the loop that compares the selector with str(index)
RECURSIVE FindFrom_ZeroBased(_, _, _)
FindFrom_ZeroBased(chs, c, index) ==
    IF index >= Len(chs) THEN -1
    ELSE IF chs[index + 1] = c \/ str(index) = c THEN index
    ELSE FindFrom_ZeroBased(chs, c, index + 1)

RECURSIVE FindFrom(_, _, _)
FindFrom(chs, c, index) ==
    IF index >= Len(chs) THEN -1
    ELSE IF chs[index + 1] = c \/ str(index + 1) = c THEN index
    ELSE FindFrom(chs, c, index + 1)

\* variant of find_channel_index that forgets the positional reading
find_channel_index_NameOnly(img, c) ==
    LET chs == getChannels(img)
        hits == {k \in 1..Len(chs) : chs[k] = c}
    IN IF hits = {} THEN -1
       ELSE (CHOOSE k \in hits : \A j \in hits : k <= j) - 1

find_channel_index(img, c) == FindFrom(getChannels(img), c, 0)

(***************************************************************************)
(* The parameters of a run                                                 *)
(***************************************************************************)
Variants == {"colocalisation", "correlation"}

\* (Minimum shift, Maximum shift): greater, equal, smaller
ShiftPairs == {<<1, 2>>, <<2, 2>>, <<2, 1>>}

\* the parameter dictionaries run() is called with
ParamsOf(v) ==
    IF v = "colocalisation"
    THEN [ids : SeqsUpTo(RequestIds, MaxIds), datatype : {"Image", "Dataset"},
          ch1 : {"DAPI", "Cy5"}, ch2 : {"2", "RFP"}, ch3 : {"", "3"},
          method : {"Otsu"}, shift : ShiftPairs,
          intersect : {FALSE}, aggregate : {FALSE},
          upload : BOOLEAN, email : BOOLEAN]
    ELSE [ids : SeqsUpTo(RequestIds, MaxIds), datatype : {"Image", "Dataset"},
          ch1 : {"1"}, ch2 : {"2"}, ch3 : {""},
          method : {"Otsu"}, shift : {<<1, 2>>},
          intersect : BOOLEAN, aggregate : BOOLEAN,
          upload : BOOLEAN, email : BOOLEAN]

(***************************************************************************)
(* run(): the image list                                                   *)
(***************************************************************************)
\* conn.getObjects("Image", ids): an id that names no image yields nothing,
\* or a None entry when asNone (the callers guard against None entries)
RECURSIVE getObjects(_, _)
getObjects(ids, asNone) ==
    IF ids = <<>> THEN <<>>
    ELSE (IF Head(ids) \in ImageIds THEN <<Head(ids)>>
          ELSE IF asNone THEN <<NoneImg>> ELSE <<>>)
         \o getObjects(Tail(ids), asNone)

\* the loop over params[PARAM_IDS] for data type Dataset
RECURSIVE DatasetImages(_)
DatasetImages(ids) ==
    IF ids = <<>> THEN <<>>
    ELSE (IF Head(ids) \in DatasetIds THEN listChildren(Head(ids)) ELSE <<>>)
         \o DatasetImages(Tail(ids))

\* the image lists run() may build from the parameters
ImageLists(p) ==
    IF p.datatype = "Image"
    THEN {getObjects(p.ids, b) : b \in BOOLEAN}
    ELSE {DatasetImages(p.ids)}

(***************************************************************************)
(* check_parameters                                                        *)
(***************************************************************************)
Err(kind, img, c) == [kind |-> kind, img |-> img, c |-> c]

\* the list C of requested channel selectors
RequestedChannels(p) ==
    <<p.ch1, p.ch2>> \o (IF p.ch3 # "" THEN <<p.ch3>> ELSE <<>>)

\* the ERROR lines of the loop over the images
ChannelErrors(images, p) ==
    {Err("channel", images[i], RequestedChannels(p)[j]) :
        <<i, j>> \in {x \in (DOMAIN images) \X (DOMAIN RequestedChannels(p)) :
                        /\ images[x[1]] # NoneImg
                        /\ find_channel_index(images[x[1]],
                                              RequestedChannels(p)[x[2]]) < 0}}

ShiftErrors(p) ==
    IF p.shift[2] <= p.shift[1] THEN {Err("shift", 0, "")} ELSE {}

OptionErrors(p) ==
    IF ~p.upload /\ ~p.email THEN {Err("option", 0, "")} ELSE {}

\* check_parameters: the result and the ERROR lines it prints
check_parameters(v, images, p) ==
    LET errs == IF v = "colocalisation"
                THEN ChannelErrors(images, p) \cup ShiftErrors(p) \cup OptionErrors(p)
                ELSE OptionErrors(p)
    IN [result |-> errs = {}, errors |-> errs]

(***************************************************************************)
(* extract_results: the two parsers of the tool's standard output          *)
(***************************************************************************)
Line(k, id, v) == [k |-> k, id |-> id, v |-> v]

\* re.match("(\d+).ome.tif,(.*)", line)
IsData(line) == line.k = "dat"

\* re.match("Image,(p,Method.*)", line)
IsHeader(line) == line.k = "hdr"

\* re.match("Stack correlation [^ ]* : (\d+).ome.tif", line)
IsLabel(line) == line.k = "lbl"

\* line.startswith("t")
StartsWithT(line) == line.k = "row"

\* m.group(2) of a data line: the text after '<id>.ome.tif,'
Group2(line) == Line("rest", 0, line.v)

\* m.group(1) of a header line: the text after 'Image,'
Group1(line) == Line("cols", 0, line.v)

ParserInit ==
    [extract_result |-> FALSE, image_id |-> 0, result |-> <<>>,
     results |-> EmptyDict]

\* variant of the colocalisation loop body that looks for a header only on
\* the lines it reads outside a result (`else` for the second `if`)
StepA_ElseBranch(st, line) ==
    IF st.extract_result
    THEN IF IsData(line)
         THEN [st EXCEPT !.image_id = line.id,
                         !.result = Append(@, Group2(line))]
         ELSE [st EXCEPT !.results = DictPut(@, st.image_id, st.result),
                         !.image_id = 0,
                         !.extract_result = FALSE]
    ELSE IF IsHeader(line)
         THEN [st EXCEPT !.extract_result = TRUE, !.result = <<Group1(line)>>]
         ELSE st

\* one pass of the colocalisation loop body
StepA(st, line) ==
    LET s1 == IF st.extract_result
              THEN IF IsData(line)
                   THEN [st EXCEPT !.image_id = line.id,
                                   !.result = Append(@, Group2(line))]
                   ELSE [st EXCEPT !.results = DictPut(@, st.image_id, st.result),
                                   !.image_id = 0,
                                   !.extract_result = FALSE]
              ELSE st
    IN IF ~s1.extract_result /\ IsHeader(line)
       THEN [s1 EXCEPT !.extract_result = TRUE, !.result = <<Group1(line)>>]
       ELSE s1

\* variant of the correlation loop body that keeps in the accumulator a
\* line it skips outside a result
StepB_SkipKeepsLine(st, line) ==
    LET s1 == IF st.image_id # 0
              THEN IF StartsWithT(line)
                   THEN [st EXCEPT !.result = Append(@, line)]
                   ELSE [st EXCEPT !.results = DictPut(@, st.image_id, st.result),
                                   !.image_id = 0]
              ELSE st
    IN IF s1.image_id = 0 /\ IsLabel(line)
       THEN [s1 EXCEPT !.result = <<line>>, !.image_id = line.id]
       ELSE IF st.image_id = 0 THEN [s1 EXCEPT !.result = <<line>>] ELSE s1

\* variant of the correlation loop body that looks for a label only on the
\* lines it reads outside a result (`else` for the second `if`)
StepB_ElseBranch(st, line) ==
    IF st.image_id # 0
    THEN IF StartsWithT(line)
         THEN [st EXCEPT !.result = Append(@, line)]
         ELSE [st EXCEPT !.results = DictPut(@, st.image_id, st.result),
                         !.image_id = 0]
    ELSE IF IsLabel(line)
         THEN [st EXCEPT !.result = <<line>>, !.image_id = line.id]
         ELSE st

\* one pass of the correlation loop body
StepB(st, line) ==
    LET s1 == IF st.image_id # 0
              THEN IF StartsWithT(line)
                   THEN [st EXCEPT !.result = Append(@, line)]
                   ELSE [st EXCEPT !.results = DictPut(@, st.image_id, st.result),
                                   !.image_id = 0]
              ELSE st
    IN IF s1.image_id = 0 /\ IsLabel(line)
       THEN [s1 EXCEPT !.result = <<line>>, !.image_id = line.id]
       ELSE s1

RECURSIVE ParseLoop(_, _, _)
ParseLoop(v, st, lines) ==
    IF lines = <<>> THEN st
    ELSE ParseLoop(v,
                   IF v = "colocalisation" THEN StepA(st, Head(lines))
                   ELSE StepB(st, Head(lines)),
                   Tail(lines))

\* variant of the end of the function that stores the final result without
\* its last row
ParseEnd_DropsLastRow(st) ==
    IF st.image_id # 0
    THEN DictPut(st.results, st.image_id,
                 SubSeq(st.result, 1, Len(st.result) - 1))
    ELSE st.results

\* variant of the end of the function without the final result
ParseEnd_NoFlush(st) == st.results

\* the statements after the loop: the final result
ParseEnd(st) ==
    IF st.image_id # 0 THEN DictPut(st.results, st.image_id, st.result)
    ELSE st.results

extract_results(v, lines) == ParseEnd(ParseLoop(v, ParserInit, lines))

\* what the tool may print about the files it opened
Alphabet(v, ids) ==
    IF v = "colocalisation"
    THEN {Line("hdr", 0, 1), Line("txt", 0, 1)} \cup {Line("dat", i, 1) : i \in ids}
    ELSE {Line("row", 0, 1), Line("txt", 0, 1)} \cup {Line("lbl", i, 1) : i \in ids}

Captures(v, ids) == SeqsUpTo(Alphabet(v, ids), MaxLines)

(***************************************************************************)
(* The state of one run                                                    *)
(***************************************************************************)
VARIABLES
    variant,        \* which analyser runs
    params,         \* the parameter dictionary of the run
    pc,             \* the statement of run() that executes next
    images,         \* run(): images
    errors,         \* the ERROR lines printed so far
    tmp_dir,        \* the module global tmp_dir (NoDir before the first mkdtemp)
    dirs,           \* the temporary directories that exist
    files,          \* the files that exist
    idx,            \* extract_images: position of the loop over images
    image_names,    \* extract_images: names
    script,         \* the command blocks written to the macro file
    tool,           \* how the subprocess call ended
    capture,        \* the lines in the capture file, until they are read
    parsed,         \* extract_results was called
    results,        \* run(): results
    order,          \* the iteration order of results.iteritems()
    upIdx,          \* upload_results: position of the loop over results
    attachments,    \* the file annotations linked to images
    report,         \* run(): report
    emails,         \* the number of messages given to sendmail
    rmdirTried,     \* os.rmdir(tmp_dir) was called
    cleanupFailed,  \* an os.remove of the clean-up loop raised
    raised,         \* the statement whose exception ended the run
    ret             \* the value run() returned, when pc = "done"

vars == <<sizer, exporter, duo, client, probe, parse, variant, params, pc, images, errors, tmp_dir, dirs, files, idx,
          image_names, script, tool, capture, parsed, results, order, upIdx,
          attachments, report, emails, rmdirTried, cleanupFailed, raised, ret>>

\* the variables of run()
runVars == <<variant, params, pc, images, errors, tmp_dir, dirs, files, idx,
             image_names, script, tool, capture, parsed, results, order, upIdx,
             attachments, report, emails, rmdirTried, cleanupFailed, raised, ret>>

NoDir == 0

\* the directory tempfile.mkdtemp makes for the run
NewDir == 1

File(d, t, id) == [dir |-> d, t |-> t, id |-> id]

\* '%s/%s.ome.tif' % (tmp_dir, img.getId())
OmeName(d, img) == File(d, "ome", img)

\* variant of the macro file name without the directory
MacroFile_InCwd(d) == File(NoDir, "macro", 0)

MacroFile(d) == File(d, "macro", 0)

ResultFile(d) == File(d, "stdout", 0)

\* glob.glob("%s/*" % tmp_dir)
Glob(d) == {f \in files : f.dir = d}

\* find_channel_index and extract_results are not applied on their own
NoProbe == [chs |-> <<>>, c |-> "", stage |-> "off", index |-> -1, ok |-> FALSE]

NoParse ==
    [g |-> "none", lines |-> <<>>, pos |-> 1, st |-> ParserInit,
     eof |-> FALSE, results |-> EmptyDict]

\* the runs of one process
Runs == {1, 2}

\* one run at a time: no second run in the process
NoDuo ==
    [tmp_dir |-> NoDir, pcs |-> [r \in Runs |-> "off"],
     made |-> [r \in Runs |-> NoDir], paths |-> [r \in Runs |-> NoDir],
     written |-> {}, removed |-> {}]

\* run() is entered directly, without run_as_script
\* neither Image_Size.run nor Check_Images.run is running
NoSizer ==
    [script |-> "none", all |-> FALSE, datatype |-> "Image", ids |-> <<>>,
     archived |-> FALSE, files |-> <<>>, arch |-> <<>>, selected |-> <<>>,
     images |-> <<>>, pos |-> 1, processed |-> <<>>, count |-> 0,
     total |-> 0, total_archived |-> 0, ok |-> 0, original_ids |-> {},
     stage |-> "off"]

\* the export loop is not running
NoExporter ==
    [stream |-> <<>>, read |-> 0, out |-> <<>>, requests |-> <<>>,
     chunks |-> <<>>, stage |-> "off"]

NoClient ==
    [email |-> <<>>, profile |-> <<>>, to |-> <<>>, valid |-> FALSE,
     stage |-> "off", message |-> "none"]

\* the variables of run() before its first statement
RunLocals ==
    /\ images = <<>>
    /\ errors = {}
    /\ tmp_dir = NoDir
    /\ dirs = {}
    /\ files = {}
    /\ idx = 1
    /\ image_names = <<>>
    /\ script = <<>>
    /\ tool = "notrun"
    /\ capture = <<>>
    /\ parsed = FALSE
    /\ results = EmptyDict
    /\ order = <<>>
    /\ upIdx = 1
    /\ attachments = <<>>
    /\ report = <<>>
    /\ emails = 0
    /\ rmdirTried = FALSE
    /\ cleanupFailed = FALSE
    /\ raised = "none"
    /\ ret = 0

\* the state in which run() is entered
RunEntry == pc = "run" /\ RunLocals

Init ==
    /\ sizer = NoSizer
    /\ exporter = NoExporter
    /\ duo = NoDuo
    /\ variant \in Variants
    /\ params \in ParamsOf(variant)
    /\ RunEntry
    /\ probe = NoProbe
    /\ parse = NoParse
    /\ client = NoClient

\* an exception leaves run(): nothing after the raising statement executes
Raise(what) == pc' = "raised" /\ raised' = what

(***************************************************************************)
(* run(): the checks before any work                                       *)
(***************************************************************************)
\* `if not params.get(PARAM_IDS): return -1`
RejectNoIds ==
    /\ pc = "run"
    /\ params.ids = <<>>
    /\ pc' = "done"
    /\ ret' = -1
    /\ UNCHANGED <<sizer, exporter, duo, client, probe, parse, variant, params, images, errors, tmp_dir, dirs, files, idx,
                   image_names, script, tool, capture, parsed, results, order,
                   upIdx, attachments, report, emails, rmdirTried,
                   cleanupFailed, raised>>

\* variant of Validate that makes the workspace before it checks
Validate_DirFirst ==
    /\ pc = "run"
    /\ params.ids # <<>>
    /\ tmp_dir' = NewDir
    /\ dirs' = dirs \cup {NewDir}
    /\ \E imgs \in ImageLists(params) :
         LET chk == check_parameters(variant, imgs, params)
         IN /\ images' = imgs
            /\ errors' = errors \cup chk.errors
            /\ IF chk.result
               THEN pc' = "extract_images" /\ ret' = ret
               ELSE pc' = "done" /\ ret' = -1
    /\ UNCHANGED <<sizer, exporter, duo, client, probe, parse, variant, params, files, idx, image_names,
                   script, tool, capture, parsed, results, order, upIdx,
                   attachments, report, emails, rmdirTried, cleanupFailed,
                   raised>>

\* the image list is built and check_parameters decides
Validate ==
    /\ pc = "run"
    /\ params.ids # <<>>
    /\ \E imgs \in ImageLists(params) :
         LET chk == check_parameters(variant, imgs, params)
         IN /\ images' = imgs
            /\ errors' = errors \cup chk.errors
            /\ IF chk.result
               THEN pc' = "extract_images" /\ ret' = ret
               ELSE pc' = "done" /\ ret' = -1
    /\ UNCHANGED <<sizer, exporter, duo, client, probe, parse, variant, params, tmp_dir, dirs, files, idx, image_names,
                   script, tool, capture, parsed, results, order, upIdx,
                   attachments, report, emails, rmdirTried, cleanupFailed,
                   raised>>

(***************************************************************************)
(* extract_images                                                          *)
(***************************************************************************)
\* tmp_dir = tempfile.mkdtemp(...)
MakeTmpDir ==
    /\ pc = "extract_images"
    /\ tmp_dir' = NewDir
    /\ dirs' = dirs \cup {NewDir}
    /\ idx' = 1
    /\ image_names' = <<>>
    /\ pc' = "export"
    /\ UNCHANGED <<sizer, exporter, duo, client, probe, parse, variant, params, images, errors, files, script, tool,
                   capture, parsed, results, order, upIdx, attachments, report,
                   emails, rmdirTried, cleanupFailed, raised, ret>>

\* variant of SkipNone that appends a name for the None entry
SkipNone_AppendsName ==
    /\ pc = "export"
    /\ idx <= Len(images)
    /\ images[idx] = NoneImg
    /\ idx' = idx + 1
    /\ image_names' = Append(image_names, OmeName(tmp_dir, images[idx]))
    /\ UNCHANGED <<sizer, exporter, duo, client, probe, parse, variant, params, pc, images, errors, tmp_dir, dirs, files,
                   script, tool, capture, parsed, results, order,
                   upIdx, attachments, report, emails, rmdirTried,
                   cleanupFailed, raised, ret>>

\* one pass of `for img in images` for a None entry
SkipNone ==
    /\ pc = "export"
    /\ idx <= Len(images)
    /\ images[idx] = NoneImg
    /\ idx' = idx + 1
    /\ UNCHANGED <<sizer, exporter, duo, client, probe, parse, variant, params, pc, images, errors, tmp_dir, dirs, files,
                   image_names, script, tool, capture, parsed, results, order,
                   upIdx, attachments, report, emails, rmdirTried,
                   cleanupFailed, raised, ret>>

\* one pass of `for img in images` in which the exporter delivers the image
ExportImage ==
    /\ pc = "export"
    /\ idx <= Len(images)
    /\ images[idx] # NoneImg
    /\ files' = files \cup {OmeName(tmp_dir, images[idx])}
    /\ image_names' = Append(image_names, OmeName(tmp_dir, images[idx]))
    /\ idx' = idx + 1
    /\ UNCHANGED <<sizer, exporter, duo, client, probe, parse, variant, params, pc, images, errors, tmp_dir, dirs, script,
                   tool, capture, parsed, results, order, upIdx, attachments,
                   report, emails, rmdirTried, cleanupFailed, raised, ret>>

\* one pass in which generateTiff (no file yet) or read (file open) raises:
\* the finally clause closes the exporter and the exception goes on
ExportRaises ==
    /\ pc = "export"
    /\ idx <= Len(images)
    /\ images[idx] # NoneImg
    /\ \E opened \in BOOLEAN :
         files' = IF opened THEN files \cup {OmeName(tmp_dir, images[idx])}
                  ELSE files
    /\ Raise("export")
    /\ UNCHANGED <<sizer, exporter, duo, client, probe, parse, variant, params, images, errors, tmp_dir, dirs, idx,
                   image_names, script, tool, capture, parsed, results, order,
                   upIdx, attachments, report, emails, rmdirTried,
                   cleanupFailed, ret>>

\* variant of the return that leaves the loop after its first pass
ExtractImagesReturn_InLoop ==
    /\ pc = "export"
    /\ idx > 1
    /\ pc' = "run_imagej"
    /\ UNCHANGED <<sizer, exporter, duo, client, probe, parse, variant, params, images, errors, tmp_dir, dirs, files, idx,
                   image_names, script, tool, capture, parsed, results, order,
                   upIdx, attachments, report, emails, rmdirTried,
                   cleanupFailed, raised, ret>>

\* `return names`
ExtractImagesReturn ==
    /\ pc = "export"
    /\ idx > Len(images)
    /\ pc' = "run_imagej"
    /\ UNCHANGED <<sizer, exporter, duo, client, probe, parse, variant, params, images, errors, tmp_dir, dirs, files, idx,
                   image_names, script, tool, capture, parsed, results, order,
                   upIdx, attachments, report, emails, rmdirTried,
                   cleanupFailed, raised, ret>>

(***************************************************************************)
(* run_imagej                                                              *)
(***************************************************************************)
\* variant of the channel arguments that hands on the 0-based indices
ChannelArgs_ZeroBased(p, img) ==
    LET c1 == find_channel_index(img, p.ch1)
        c2 == find_channel_index(img, p.ch2)
        c3 == IF p.ch3 # "" THEN find_channel_index(img, p.ch3) ELSE -1
    IN [channel_1 |-> c1, channel_2 |-> c2,
        channel_3 |-> IF c3 >= 0 THEN str(c3) ELSE "[None]"]

\* the channel arguments of one command block (1-based for the plugin)
ChannelArgs(p, img) ==
    LET c1 == find_channel_index(img, p.ch1)
        c2 == find_channel_index(img, p.ch2)
        c3 == IF p.ch3 # "" THEN find_channel_index(img, p.ch3) ELSE -1
    IN [channel_1 |-> c1 + 1, channel_2 |-> c2 + 1,
        channel_3 |-> IF c3 >= 0 THEN str(c3 + 1) ELSE "[None]"]

\* the text written for image_names[i]: img is images[i]
Block(v, p, name, img) ==
    [open |-> name,
     channels |-> getSizeC(img), slices |-> getSizeZ(img),
     frames |-> getSizeT(img),
     plugin |-> v,
     options |-> IF v = "colocalisation"
                 THEN [method |-> p.method, shift |-> p.shift]
                 ELSE [method |-> p.method, intersect |-> p.intersect,
                       aggregate |-> p.aggregate],
     args |-> IF v = "colocalisation" THEN ChannelArgs(p, img)
              ELSE [channel_1 |-> 0, channel_2 |-> 0, channel_3 |-> ""]]

\* `for i, name in enumerate(image_names): img = images[i] ...`: the blocks
\* written from position i on, and whether the loop ran to its end; using a
\* None entry raises AttributeError
RECURSIVE MacroLoop(_, _, _, _, _)
MacroLoop(v, p, imgs, names, i) ==
    IF i > Len(names) THEN [blocks |-> <<>>, ok |-> TRUE]
    ELSE IF imgs[i] = NoneImg THEN [blocks |-> <<>>, ok |-> FALSE]
    ELSE LET rest == MacroLoop(v, p, imgs, names, i + 1)
         IN [blocks |-> <<Block(v, p, names[i], imgs[i])>> \o rest.blocks,
             ok |-> rest.ok]

\* variant of run_imagej without the early return: the script file is
\* written also when no image was exported
NoImagesReturn_WritesScript ==
    /\ pc = "run_imagej"
    /\ image_names = <<>>
    /\ results' = EmptyDict
    /\ order' = <<>>
    /\ pc' = "distribute"
    /\ files' = files \cup {MacroFile(tmp_dir)}
    /\ UNCHANGED <<sizer, exporter, duo, client, probe, parse, variant, params, images, errors, tmp_dir, dirs, idx,
                   image_names, script, tool, capture, parsed, upIdx,
                   attachments, report, emails, rmdirTried, cleanupFailed,
                   raised, ret>>

\* `if not image_names: return results`
NoImagesReturn ==
    /\ pc = "run_imagej"
    /\ image_names = <<>>
    /\ results' = EmptyDict
    /\ order' = <<>>
    /\ pc' = "distribute"
    /\ UNCHANGED <<sizer, exporter, duo, client, probe, parse, variant, params, images, errors, tmp_dir, dirs, files, idx,
                   image_names, script, tool, capture, parsed, upIdx,
                   attachments, report, emails, rmdirTried, cleanupFailed,
                   raised, ret>>

\* the macro file is opened, written and closed
WriteMacro ==
    /\ pc = "run_imagej"
    /\ image_names # <<>>
    /\ LET w == MacroLoop(variant, params, images, image_names, 1)
       IN /\ script' = w.blocks
          /\ files' = files \cup {MacroFile(tmp_dir)}
          /\ IF w.ok THEN pc' = "invoke" /\ raised' = raised
             ELSE Raise("macro")
    /\ UNCHANGED <<sizer, exporter, duo, client, probe, parse, variant, params, images, errors, tmp_dir, dirs, idx,
                   image_names, tool, capture, parsed, results, order, upIdx,
                   attachments, report, emails, rmdirTried, cleanupFailed, ret>>

\* the ids of the files the macro opens
OpenedIds == {script[i].open.id : i \in DOMAIN script}

\* variant of InvokeTool that reads the capture file whatever the exit status
InvokeTool_IgnoresStatus ==
    /\ pc = "invoke"
    /\ files' = files \cup {ResultFile(tmp_dir)}
    /\ \E how \in {"ok", "nonzero", "oserror"} :
         /\ tool' = how
         /\ IF how = "oserror" THEN capture' = <<>>
            ELSE capture' \in Captures(variant, OpenedIds)
         /\ pc' = IF how # "oserror" THEN "extract_results" ELSE "delete_temp"
    /\ UNCHANGED <<sizer, exporter, duo, client, probe, parse, variant, params, images, errors, tmp_dir, dirs, idx,
                   image_names, script, parsed, results, order, upIdx,
                   attachments, report, emails, rmdirTried, cleanupFailed,
                   raised, ret>>

\* the result file is opened and subprocess.call returns or raises OSError
InvokeTool ==
    /\ pc = "invoke"
    /\ files' = files \cup {ResultFile(tmp_dir)}
    /\ \E how \in {"ok", "nonzero", "oserror"} :
         /\ tool' = how
         /\ IF how = "oserror" THEN capture' = <<>>
            ELSE capture' \in Captures(variant, OpenedIds)
         /\ pc' = IF how = "ok" THEN "extract_results" ELSE "delete_temp"
    /\ UNCHANGED <<sizer, exporter, duo, client, probe, parse, variant, params, images, errors, tmp_dir, dirs, idx,
                   image_names, script, parsed, results, order, upIdx,
                   attachments, report, emails, rmdirTried, cleanupFailed,
                   raised, ret>>

Perms(S) ==
    {f \in [1..Cardinality(S) -> S] :
        \A i, j \in 1..Cardinality(S) : f[i] = f[j] => i = j}

\* `results = extract_results(result_file)`
ExtractResults ==
    /\ pc = "extract_results"
    /\ parsed' = TRUE
    /\ results' = extract_results(variant, capture)
    /\ order' \in Perms(DOMAIN results')
    /\ pc' = "delete_temp"
    /\ UNCHANGED <<sizer, exporter, duo, client, probe, parse, variant, params, images, errors, tmp_dir, dirs, files, idx,
                   image_names, script, tool, capture, upIdx, attachments,
                   report, emails, rmdirTried, cleanupFailed, raised, ret>>

\* the order in which glob lists the files of the directory
GlobRank(f) ==
    CASE f.t = "ome" -> f.id
      [] f.t = "macro" -> 10
      [] f.t = "stdout" -> 11
      [] OTHER -> 12

\* `for name in glob.glob(...): os.remove(name)` inside try/except: pass;
\* either every file is removed or an os.remove raises at file `at` and the
\* files from there on stay
DeleteTemp ==
    /\ pc = "delete_temp"
    /\ \/ /\ files' = files \ Glob(tmp_dir)
          /\ cleanupFailed' = cleanupFailed
       \/ \E at \in Glob(tmp_dir) :
            /\ files' = {f \in files :
                           f.dir # tmp_dir \/ GlobRank(f) >= GlobRank(at)}
            /\ cleanupFailed' = TRUE
    /\ capture' = <<>>
    /\ pc' = "distribute"
    /\ UNCHANGED <<sizer, exporter, duo, client, probe, parse, variant, params, images, errors, tmp_dir, dirs, idx,
                   image_names, script, tool, parsed, results, order, upIdx,
                   attachments, report, emails, rmdirTried, raised, ret>>

(***************************************************************************)
(* run(): distribution of the results                                      *)
(***************************************************************************)
\* conn.getObject('Image', image_id) finds an image
Found(image_id) == image_id \in ImageIds

\* img.getParent() and its parent: image 2 is in no project
DatasetName(img) == IF img = 1 THEN "D1" ELSE "D2"

ProjectName(img) == IF img = 1 THEN "P1" ELSE "-"

\* os.path.basename(img.getName())
BaseName(img) == IF img = 1 THEN "a.tif" ELSE "b.tif"

Tok(t, v) == [t |-> t, v |-> v]

\* create_result_name: the tokens joined by '_' before '.csv'
create_result_name(v, p) ==
    IF v = "colocalisation"
    THEN <<Tok("Colocalisation", ""), Tok("Method", p.method),
           Tok("Ch", p.ch1), Tok("Ch", p.ch2)>>
         \o (IF p.ch3 # "" THEN <<Tok("Ch", p.ch3)>> ELSE <<>>)
    ELSE <<Tok("Correlation", ""), Tok("Method", p.method)>>
         \o (IF p.intersect THEN <<Tok("Intersect", "")>> ELSE <<>>)
         \o (IF p.aggregate THEN <<Tok("Aggregate", "")>> ELSE <<>>)

\* "%d.%s" % (image_id, result_name)
AttachmentName(v, p, image_id) ==
    [id |-> image_id, name |-> create_result_name(v, p)]

\* the file tempfile.mkstemp(dir=tmp_dir) makes for one image
TmpFile(d, image_id) == File(d, "tmp", image_id)

\* `if results:` and the elif branch
Distribute ==
    /\ pc = "distribute"
    /\ IF DOMAIN results # {}
       THEN pc' = "upload" /\ upIdx' = 1 /\ errors' = errors
       ELSE /\ pc' = "rmdir"
            /\ upIdx' = upIdx
            /\ errors' = IF image_names # <<>>
                         THEN errors \cup {Err("noresults", 0, "")}
                         ELSE errors
    /\ UNCHANGED <<sizer, exporter, duo, client, probe, parse, variant, params, images, tmp_dir, dirs, files, idx,
                   image_names, script, tool, capture, parsed, results, order,
                   attachments, report, emails, rmdirTried, cleanupFailed,
                   raised, ret>>

\* upload_results returns: uploads are off, or the loop is over
UploadReturn ==
    /\ pc = "upload"
    /\ ~params.upload \/ upIdx > Len(order)
    /\ pc' = "report"
    /\ UNCHANGED <<sizer, exporter, duo, client, probe, parse, variant, params, images, errors, tmp_dir, dirs, files, idx,
                   image_names, script, tool, capture, parsed, results, order,
                   upIdx, attachments, report, emails, rmdirTried,
                   cleanupFailed, raised, ret>>

\* one pass of the loop for an id getObject does not find: continue
UploadSkip ==
    /\ pc = "upload"
    /\ params.upload
    /\ upIdx <= Len(order)
    /\ ~Found(order[upIdx])
    /\ upIdx' = upIdx + 1
    /\ UNCHANGED <<sizer, exporter, duo, client, probe, parse, variant, params, pc, images, errors, tmp_dir, dirs, files,
                   idx, image_names, script, tool, capture, parsed, results,
                   order, attachments, report, emails, rmdirTried,
                   cleanupFailed, raised, ret>>

\* one pass of the loop: the temporary file is written, the annotation is
\* created and linked, the temporary file is removed
UploadOne ==
    /\ pc = "upload"
    /\ params.upload
    /\ upIdx <= Len(order)
    /\ Found(order[upIdx])
    /\ attachments' = Append(attachments,
                             [img |-> order[upIdx],
                              name |-> AttachmentName(variant, params, order[upIdx]),
                              text |-> results[order[upIdx]]])
    /\ files' = files \ {TmpFile(tmp_dir, order[upIdx])}
    /\ upIdx' = upIdx + 1
    /\ UNCHANGED <<sizer, exporter, duo, client, probe, parse, variant, params, pc, images, errors, tmp_dir, dirs, idx,
                   image_names, script, tool, capture, parsed, results, order,
                   report, emails, rmdirTried, cleanupFailed, raised, ret>>

\* one pass of the loop in which createFileAnnfromLocalFile or linkAnnotation
\* raises (the temporary file stays), or os.remove raises after the link
UploadRaises ==
    /\ pc = "upload"
    /\ params.upload
    /\ upIdx <= Len(order)
    /\ Found(order[upIdx])
    /\ files' = files \cup {TmpFile(tmp_dir, order[upIdx])}
    /\ \/ /\ attachments' = attachments
          /\ Raise("upload")
       \/ /\ attachments' = Append(attachments,
                                   [img |-> order[upIdx],
                                    name |-> AttachmentName(variant, params, order[upIdx]),
                                    text |-> results[order[upIdx]]])
          /\ Raise("remove")
    /\ UNCHANGED <<sizer, exporter, duo, client, probe, parse, variant, params, images, errors, tmp_dir, dirs, idx,
                   image_names, script, tool, capture, parsed, results, order,
                   upIdx, report, emails, rmdirTried, cleanupFailed, ret>>

\* result.splitlines(): a colocalisation block is its parts joined by "\n",
\* so a last part that is empty (v = 0) yields no line; a correlation block
\* is the lines themselves, each with its line end
SplitLines(v, text) ==
    IF v = "colocalisation" /\ text # <<>> /\ text[Len(text)].v = 0
    THEN SubSeq(text, 1, Len(text) - 1)
    ELSE text

\* variant of the report lines of one image that keeps the first line
ReportRows_AllLines(v, image_id, text) ==
    LET lines == SplitLines(v, text)
    IN [i \in 1..Len(lines) |->
          [k |-> "row", project |-> ProjectName(image_id),
           dataset |-> DatasetName(image_id), id |-> image_id,
           name |-> BaseName(image_id), line |-> lines[i]]]

\* variant of the report lines of one image that starts at the first line
\* and stops before the last one
ReportRows_Shifted(v, image_id, text) ==
    LET lines == SplitLines(v, text)
    IN [i \in 1..(Len(lines) - 1) |->
          [k |-> "row", project |-> ProjectName(image_id),
           dataset |-> DatasetName(image_id), id |-> image_id,
           name |-> BaseName(image_id), line |-> lines[i]]]

\* the report lines of one image: `for line in lines[1:]`
ReportRows(v, image_id, text) ==
    LET lines == SplitLines(v, text)
    IN [i \in 1..(Len(lines) - 1) |->
          [k |-> "row", project |-> ProjectName(image_id),
           dataset |-> DatasetName(image_id), id |-> image_id,
           name |-> BaseName(image_id), line |-> lines[i + 1]]]

\* the first report line: the four leading columns and the columns of the
\* variant's result rows, 14 of them for colocalisation and 6 for correlation
ReportHeader(v) ==
    [k |-> "header", project |-> "Project", dataset |-> "Dataset", id |-> 0,
     name |-> "Name",
     line |-> Line("columns", 0, IF v = "colocalisation" THEN 14 ELSE 6)]

RECURSIVE ReportFrom(_, _, _, _)
ReportFrom(v, res, ord, i) ==
    IF i > Len(ord) THEN <<>>
    ELSE (IF Found(ord[i]) THEN ReportRows(v, ord[i], res[ord[i]]) ELSE <<>>)
         \o ReportFrom(v, res, ord, i + 1)

create_report(v, res, ord) == <<ReportHeader(v)>> \o ReportFrom(v, res, ord, 1)

\* `report = create_report(conn, results, params)` and the print loop
CreateReport ==
    /\ pc = "report"
    /\ report' = create_report(variant, results, order)
    /\ pc' = "email"
    /\ UNCHANGED <<sizer, exporter, duo, client, probe, parse, variant, params, images, errors, tmp_dir, dirs, files, idx,
                   image_names, script, tool, capture, parsed, results, order,
                   upIdx, attachments, emails, rmdirTried, cleanupFailed,
                   raised, ret>>

\* variant of email_results that does not look at the e-mail flag
EmailResults_IgnoresFlag ==
    /\ pc = "email"
    /\ emails' = emails + 1
    /\ pc' = "rmdir"
    /\ UNCHANGED <<sizer, exporter, duo, client, probe, parse, variant, params, images, errors, tmp_dir, dirs, files, idx,
                   image_names, script, tool, capture, parsed, results, order,
                   upIdx, attachments, report, rmdirTried, cleanupFailed,
                   raised, ret>>

\* email_results: returns at once when e-mail is off, else sends one message
EmailResults ==
    /\ pc = "email"
    /\ emails' = IF params.email THEN emails + 1 ELSE emails
    /\ pc' = "rmdir"
    /\ UNCHANGED <<sizer, exporter, duo, client, probe, parse, variant, params, images, errors, tmp_dir, dirs, files, idx,
                   image_names, script, tool, capture, parsed, results, order,
                   upIdx, attachments, report, rmdirTried, cleanupFailed,
                   raised, ret>>

\* email_results in which smtplib raises (no server, refused recipient)
EmailRaises ==
    /\ pc = "email"
    /\ params.email
    /\ Raise("email")
    /\ UNCHANGED <<sizer, exporter, duo, client, probe, parse, variant, params, images, errors, tmp_dir, dirs, files, idx,
                   image_names, script, tool, capture, parsed, results, order,
                   upIdx, attachments, report, emails, rmdirTried,
                   cleanupFailed, ret>>

\* variant of the end of run() that returns without removing the directory
RemoveDir_KeepsDir ==
    /\ pc = "rmdir"
    /\ rmdirTried' = TRUE
    /\ IF Glob(tmp_dir) = {}
       THEN /\ dirs' = dirs
            /\ ret' = Cardinality(DOMAIN results)
            /\ pc' = "done"
            /\ raised' = raised
       ELSE /\ dirs' = dirs
            /\ ret' = ret
            /\ Raise("rmdir")
    /\ UNCHANGED <<sizer, exporter, duo, client, probe, parse, variant, params, images, errors, tmp_dir, files, idx,
                   image_names, script, tool, capture, parsed, results, order,
                   upIdx, attachments, report, emails, cleanupFailed>>

\* `os.rmdir(tmp_dir)` and `return len(results)`: rmdir raises OSError when
\* the directory is not empty
RemoveDir ==
    /\ pc = "rmdir"
    /\ rmdirTried' = TRUE
    /\ IF Glob(tmp_dir) = {}
       THEN /\ dirs' = dirs \ {tmp_dir}
            /\ ret' = Cardinality(DOMAIN results)
            /\ pc' = "done"
            /\ raised' = raised
       ELSE /\ dirs' = dirs
            /\ ret' = ret
            /\ Raise("rmdir")
    /\ UNCHANGED <<sizer, exporter, duo, client, probe, parse, variant, params, images, errors, tmp_dir, files, idx,
                   image_names, script, tool, capture, parsed, results, order,
                   upIdx, attachments, report, emails, cleanupFailed>>

Next ==
    \/ RejectNoIds
    \/ Validate
    \/ MakeTmpDir
    \/ SkipNone
    \/ ExportImage
    \/ ExportRaises
    \/ ExtractImagesReturn
    \/ NoImagesReturn
    \/ WriteMacro
    \/ InvokeTool
    \/ ExtractResults
    \/ DeleteTemp
    \/ Distribute
    \/ UploadReturn
    \/ UploadSkip
    \/ UploadOne
    \/ UploadRaises
    \/ CreateReport
    \/ EmailResults
    \/ EmailRaises
    \/ RemoveDir

Spec == Init /\ [][Next]_vars

(***************************************************************************)
(* find_channel_index and check_parameters applied to one image on their   *)
(* own, for every channel list and every selector                          *)
(***************************************************************************)
\* the names a channel may have, decimal numbers among them
ChannelNames == {"DAPI", "GFP", "RFP", "1", "2", "3"}

\* the selectors asked for: names, a name no image has, and decimal numbers
\* up to one past the most channels
Selectors == {"DAPI", "GFP", "Cy5"} \cup {str(k) : k \in 1..(MaxChannels + 1)}

\* the parameters of the colocalisation script with c as second channel
ProbeParams(c) ==
    [ids |-> <<1>>, datatype |-> "Image", ch1 |-> "1", ch2 |-> c, ch3 |-> "",
     method |-> "Otsu", shift |-> <<1, 2>>, intersect |-> FALSE,
     aggregate |-> FALSE, upload |-> TRUE, email |-> FALSE]

FindInit ==
    /\ sizer = NoSizer
    /\ exporter = NoExporter
    /\ duo = NoDuo
    /\ probe \in [chs : SeqsUpTo(ChannelNames, MaxChannels) \ {<<>>},
                  c : Selectors, stage : {"start"}, index : {-1}, ok : {FALSE}]
    /\ parse = NoParse
    /\ client = NoClient
    /\ variant = "colocalisation"
    /\ params = ProbeParams(probe.c)
    /\ RunEntry

\* index = find_channel_index(img, c)
ApplyFind ==
    /\ probe.stage = "start"
    /\ probe' = [probe EXCEPT !.stage = "found",
                              !.index = find_channel_index(ProbeImg, probe.c)]
    /\ UNCHANGED <<sizer, exporter, duo, client, parse, runVars>>

\* ok = check_parameters(conn, [img], params)
ApplyCheck ==
    /\ probe.stage = "found"
    /\ probe' = [probe EXCEPT !.stage = "checked",
                              !.ok = check_parameters(variant, <<ProbeImg>>,
                                                      params).result]
    /\ UNCHANGED <<sizer, exporter, duo, client, parse, runVars>>

FindNext == ApplyFind \/ ApplyCheck

SpecFind == FindInit /\ [][FindNext]_vars

(***************************************************************************)
(* extract_results applied on its own to every standard output of up to    *)
(* MaxParseLines lines, one line of the file per step                      *)
(***************************************************************************)
\* the lines a standard output is made of: for the colocalisation plugin the
\* header, data lines of two images (two different texts for the first) and
\* a line of another shape; for the correlation plugin the labels of two
\* images, two lines that start with "t" and a line of another shape
ParseAlphabet(g) ==
    IF g = "colocalisation"
    THEN {Line("hdr", 0, 1), Line("dat", 1, 1), Line("dat", 1, 2),
          Line("dat", 2, 1), Line("txt", 0, 1)}
    ELSE {Line("lbl", 1, 1), Line("lbl", 2, 1), Line("row", 0, 1),
          Line("row", 0, 2), Line("txt", 0, 1)}

ParseInit ==
    /\ sizer = NoSizer
    /\ exporter = NoExporter
    /\ duo = NoDuo
    /\ \E g \in Variants :
         /\ variant = g
         /\ parse \in [g : {g}, lines : SeqsUpTo(ParseAlphabet(g), MaxParseLines),
                       pos : {1}, st : {ParserInit}, eof : {FALSE},
                       results : {EmptyDict}]
    /\ probe = NoProbe
    /\ client = NoClient
    /\ params = ProbeParams("2")
    /\ RunEntry

\* `for line in file:` one pass of the loop body
ReadLine ==
    /\ parse.g # "none"
    /\ ~parse.eof
    /\ parse.pos <= Len(parse.lines)
    /\ parse' = [parse EXCEPT
                    !.st = IF parse.g = "colocalisation"
                           THEN StepA(parse.st, parse.lines[parse.pos])
                           ELSE StepB(parse.st, parse.lines[parse.pos]),
                    !.pos = parse.pos + 1]
    /\ UNCHANGED <<sizer, exporter, duo, client, probe, runVars>>

\* the end of the loop, the final result and `return results`
EndOfFile ==
    /\ parse.g # "none"
    /\ ~parse.eof
    /\ parse.pos > Len(parse.lines)
    /\ parse' = [parse EXCEPT !.eof = TRUE, !.results = ParseEnd(parse.st)]
    /\ UNCHANGED <<sizer, exporter, duo, client, probe, runVars>>

ParseNext == ReadLine \/ EndOfFile

SpecParse == ParseInit /\ [][ParseNext]_vars

(***************************************************************************)
(* validate_email: an address is a sequence of characters                  *)
(***************************************************************************)
\* the characters of an address: a letter, a digit, the dot, the at sign
\* and a character outside the classes of the pattern
AddressChars == {"a", "1", ".", "@", "!"}

\* [a-zA-Z0-9._%-]
InClass(ch) == ch \in {"a", "1", "."}

\* [a-zA-Z]
IsLetter(ch) == ch = "a"

\* re.match("^[a-zA-Z0-9._%-]+@[a-zA-Z0-9._%-]+.[a-zA-Z]{2,6}$", userEmail):
\* the character before the last 2 to 6 letters is matched by an unescaped
\* `.`, that is by any character
EmailMatches(userEmail) ==
    \E at \in DOMAIN userEmail, k \in 2..6 :
        LET any == Len(userEmail) - k
        IN /\ userEmail[at] = "@"
           /\ at > 1
           /\ \A i \in 1..(at - 1) : InClass(userEmail[i])
           /\ any > at + 1
           /\ \A i \in (at + 1)..(any - 1) : InClass(userEmail[i])
           /\ \A i \in (any + 1)..Len(userEmail) : IsLetter(userEmail[i])

\* validate_email: the address it stores in params[PARAM_EMAIL] and whether
\* the pattern matches it; profile is <<>> when the user has no address
validate_email(email, profile) ==
    LET userEmail == IF email # <<>> THEN email ELSE profile
    IN [to |-> userEmail, ok |-> EmailMatches(userEmail)]

\* an address the pattern matches and one it does not
GoodAddress == <<"a", "@", "a", ".", "a", "a">>

BadAddress == <<"a", "@">>

EmailInit ==
    /\ sizer = NoSizer
    /\ exporter = NoExporter
    /\ duo = NoDuo
    /\ client \in [email : SeqsUpTo(AddressChars, MaxAddress),
                   profile : {<<>>, GoodAddress}, to : {<<>>}, valid : {FALSE},
                   stage : {"start"}, message : {"none"}]
    /\ probe = NoProbe
    /\ parse = NoParse
    /\ variant = "correlation"
    /\ params = ProbeParams("2")
    /\ RunEntry

\* validate_email(conn, params)
ApplyValidateEmail ==
    /\ client.stage = "start"
    /\ LET r == validate_email(client.email, client.profile)
       IN client' = [client EXCEPT !.to = r.to, !.valid = r.ok,
                                   !.stage = "validated"]
    /\ UNCHANGED <<sizer, exporter, duo, probe, parse, runVars>>

EmailNext == ApplyValidateEmail

SpecEmail == EmailInit /\ [][EmailNext]_vars

(***************************************************************************)
(* run_as_script: the entry point that validates the address, calls run()  *)
(* and sets the output message                                             *)
(***************************************************************************)
\* the parameters the entry point is started with
EntryParams ==
    {p \in ParamsOf("colocalisation") :
        p.ch1 = "DAPI" /\ p.ch2 = "2" /\ p.ch3 = "" /\ p.shift = <<1, 2>>}

EntryInit ==
    /\ sizer = NoSizer
    /\ exporter = NoExporter
    /\ duo = NoDuo
    /\ variant = "colocalisation"
    /\ params \in EntryParams
    /\ client \in [email : {<<>>, GoodAddress, BadAddress},
                   profile : {<<>>, GoodAddress, BadAddress},
                   to : {<<>>}, valid : {FALSE}, stage : {"script"},
                   message : {"none"}]
    /\ probe = NoProbe
    /\ parse = NoParse
    /\ pc = "script"
    /\ RunLocals

\* variant of the entry point that validates the address whether or not
\* e-mail is requested
EnterScript_AlwaysValidates ==
    /\ pc = "script"
    /\ LET r == validate_email(client.email, client.profile)
       IN IF ~r.ok
          THEN /\ client' = [client EXCEPT !.to = r.to, !.valid = FALSE,
                                           !.stage = "closed",
                                           !.message = "No valid email address"]
               /\ pc' = "exit"
          ELSE /\ client' = [client EXCEPT !.to = r.to, !.valid = TRUE,
                                           !.stage = "called"]
               /\ pc' = "run"
    /\ UNCHANGED <<sizer, exporter, duo, probe, parse, variant, params, images, errors, tmp_dir,
                   dirs, files, idx, image_names, script, tool, capture,
                   parsed, results, order, upIdx, attachments, report, emails,
                   rmdirTried, cleanupFailed, raised, ret>>

\* `if params[PARAM_EMAIL_RESULTS] and not validate_email(conn, params):`
\* the message and the return, or the call of run()
EnterScript ==
    /\ pc = "script"
    /\ LET r == validate_email(client.email, client.profile)
       IN IF params.email /\ ~r.ok
          THEN /\ client' = [client EXCEPT !.to = r.to, !.valid = FALSE,
                                           !.stage = "closed",
                                           !.message = "No valid email address"]
               /\ pc' = "exit"
          ELSE /\ client' = [client EXCEPT
                                !.to = IF params.email THEN r.to ELSE client.email,
                                !.valid = params.email,
                                !.stage = "called"]
               /\ pc' = "run"
    /\ UNCHANGED <<sizer, exporter, duo, probe, parse, variant, params, images, errors, tmp_dir,
                   dirs, files, idx, image_names, script, tool, capture,
                   parsed, results, order, upIdx, attachments, report, emails,
                   rmdirTried, cleanupFailed, raised, ret>>

\* `count = run(conn, params)` has returned: the output message
ScriptOutput ==
    /\ pc = "done"
    /\ client.stage = "called"
    /\ client' = [client EXCEPT
                     !.stage = "closed",
                     !.message = IF ret >= 0 THEN "Processed" ELSE "Errors found"]
    /\ pc' = "exit"
    /\ UNCHANGED <<sizer, exporter, duo, probe, parse, variant, params, images, errors, tmp_dir,
                   dirs, files, idx, image_names, script, tool, capture,
                   parsed, results, order, upIdx, attachments, report, emails,
                   rmdirTried, cleanupFailed, raised, ret>>

EntryNext == EnterScript \/ ScriptOutput \/ Next

SpecEntry == EntryInit /\ [][EntryNext]_vars

(***************************************************************************)
(* Two runs interleaved in one process: every statement that reads or      *)
(* writes the module global tmp_dir is one step of the run that executes it *)
(***************************************************************************)
\* the name tempfile.mkdtemp returns to run r: unique per call
FreshDir(r) == r

\* a file written, or a directory removed, by run r
Touch(r, d, t) == [run |-> r, dir |-> d, t |-> t]

DuoInit ==
    /\ sizer = NoSizer
    /\ exporter = NoExporter
    /\ duo = [NoDuo EXCEPT !.pcs = [r \in Runs |-> "extract_images"]]
    /\ client = NoClient
    /\ probe = NoProbe
    /\ parse = NoParse
    /\ variant = "correlation"
    /\ params = ProbeParams("2")
    /\ RunEntry

\* extract_images: `tmp_dir = tempfile.mkdtemp(prefix='correlation')`
DuoMkdtemp(r) ==
    /\ duo.pcs[r] = "extract_images"
    /\ duo' = [duo EXCEPT !.tmp_dir = FreshDir(r),
                          !.made[r] = FreshDir(r),
                          !.pcs[r] = "export"]
    /\ UNCHANGED <<sizer, exporter, client, probe, parse, runVars>>

\* extract_images: `name = '%s/%s.ome.tif' % (tmp_dir, img.getId())` and
\* the file written under that name
DuoExport(r) ==
    /\ duo.pcs[r] = "export"
    /\ duo' = [duo EXCEPT !.written = @ \cup {Touch(r, duo.tmp_dir, "ome")},
                          !.pcs[r] = "run_imagej"]
    /\ UNCHANGED <<sizer, exporter, client, probe, parse, runVars>>

\* run_imagej: macro_file and result_file are joined from tmp_dir, the macro
\* file is written
DuoWriteMacro(r) ==
    /\ duo.pcs[r] = "run_imagej"
    /\ duo' = [duo EXCEPT !.paths[r] = duo.tmp_dir,
                          !.written = @ \cup {Touch(r, duo.tmp_dir, "macro")},
                          !.pcs[r] = "invoke"]
    /\ UNCHANGED <<sizer, exporter, client, probe, parse, runVars>>

\* run_imagej: `file = open(result_file, 'wb')` and the subprocess call
DuoInvoke(r) ==
    /\ duo.pcs[r] = "invoke"
    /\ duo' = [duo EXCEPT !.written = @ \cup {Touch(r, duo.paths[r], "stdout")},
                          !.pcs[r] = "upload"]
    /\ UNCHANGED <<sizer, exporter, client, probe, parse, runVars>>

\* upload_results: `tempfile.mkstemp(dir=tmp_dir, text=True)`
DuoUpload(r) ==
    /\ duo.pcs[r] = "upload"
    /\ duo' = [duo EXCEPT !.written = @ \cup {Touch(r, duo.tmp_dir, "tmp")},
                          !.pcs[r] = "rmdir"]
    /\ UNCHANGED <<sizer, exporter, client, probe, parse, runVars>>

\* run: `os.rmdir(tmp_dir)`
DuoRmdir(r) ==
    /\ duo.pcs[r] = "rmdir"
    /\ duo' = [duo EXCEPT !.removed = @ \cup {Touch(r, duo.tmp_dir, "dir")},
                          !.pcs[r] = "done"]
    /\ UNCHANGED <<sizer, exporter, client, probe, parse, runVars>>

DuoNext ==
    \/ \E r \in Runs : DuoMkdtemp(r)
    \/ \E r \in Runs : DuoExport(r)
    \/ \E r \in Runs : DuoWriteMacro(r)
    \/ \E r \in Runs : DuoInvoke(r)
    \/ \E r \in Runs : DuoUpload(r)
    \/ \E r \in Runs : DuoRmdir(r)

SpecDuo == DuoInit /\ [][DuoNext]_vars

(***************************************************************************)
(* Vocabulary of the properties                                            *)
(***************************************************************************)
\* run() returned -1
Rejected == pc = "done" /\ ret = -1

\* run() is over: it returned or an exception left it
Ended == pc \in {"done", "raised"}

\* a selector names a channel of the image or is the decimal string of one
\* of its 1-based positions
Resolves(img, c) ==
    \E k \in 1..Len(getChannels(img)) : getChannels(img)[k] = c \/ str(k) = c

SelectorsGiven(p) == {p.ch1, p.ch2} \cup (IF p.ch3 # "" THEN {p.ch3} ELSE {})

ChannelsResolve(imgs, p) ==
    \A i \in DOMAIN imgs :
        imgs[i] # NoneImg => \A c \in SelectorsGiven(p) : Resolves(imgs[i], c)

\* the preconditions of check_parameters, per analyser
Preconditions(v, imgs, p) ==
    /\ v = "colocalisation" => ChannelsResolve(imgs, p) /\ p.shift[2] > p.shift[1]
    /\ p.upload \/ p.email

\* the paths of the images of a list that are not None, in list order
RECURSIVE PathsOf(_, _)
PathsOf(d, imgs) ==
    IF imgs = <<>> THEN <<>>
    ELSE (IF Head(imgs) # NoneImg
          THEN <<[dir |-> d, t |-> "ome", id |-> Head(imgs)]>> ELSE <<>>)
         \o PathsOf(d, Tail(imgs))

(***************************************************************************)
(* C1..C10                                                                 *)
(***************************************************************************)
\* C1: whenever run() returned -1, no workspace directory was made, no image
\* was exported, the tool was not invoked, nothing was attached or mailed.
C1_RejectedRunDoesNothing ==
    Rejected =>
        /\ tmp_dir = NoDir /\ dirs = {} /\ files = {}
        /\ image_names = <<>> /\ script = <<>>
        /\ tool = "notrun" /\ ~parsed
        /\ attachments = <<>> /\ report = <<>> /\ emails = 0

\* C1 witness: a run over images that check_parameters rejected
C1_Witness == Rejected /\ images # <<>> /\ errors # {}

\* C2: once the image list is built, run() rejects exactly when a
\* precondition of the analyser fails; with upload and e-mail both off the
\* run is rejected and no report, attachment or message is made.
C2_ValidationAcceptsIffPreconditions ==
    /\ (pc # "run" /\ params.ids # <<>>) =>
          (Rejected <=> ~Preconditions(variant, images, params))
    /\ (~params.upload /\ ~params.email) =>
          /\ pc = "run" \/ Rejected
          /\ attachments = <<>> /\ report = <<>> /\ emails = 0

\* C2 witness: a colocalisation run rejected for a channel alone
C2_Witness ==
    /\ Rejected /\ variant = "colocalisation" /\ images # <<>>
    /\ params.shift[2] > params.shift[1] /\ params.upload
    /\ \E e \in errors : e.kind = "channel"

\* C3 (as claimed): a rejected colocalisation run has printed an ERROR line
\* for every precondition that is violated.
C3_EveryViolationReported ==
    (Rejected /\ variant = "colocalisation") =>
        /\ params.shift[2] <= params.shift[1] => Err("shift", 0, "") \in errors
        /\ (~params.upload /\ ~params.email) => Err("option", 0, "") \in errors
        /\ \A i \in DOMAIN images : \A c \in SelectorsGiven(params) :
              (images[i] # NoneImg /\ ~Resolves(images[i], c))
                  => Err("channel", images[i], c) \in errors

\* C4 (as claimed): run() returns -1 exactly when validation failed, and
\* otherwise the number of images of the selection that have a result block.
C4_ReturnIsProcessedCount ==
    pc = "done" =>
        /\ ret = -1 <=> (params.ids = <<>> \/ ~Preconditions(variant, images, params))
        /\ ret # -1 =>
              ret = Cardinality({i \in SeqToSet(images) \ {NoneImg} :
                                    i \in DOMAIN results})

\* C5 (as claimed): every run that passed validation and is over has called
\* os.rmdir on its workspace directory.
C5_TeardownAlwaysAttempted ==
    (Ended /\ ~Rejected) => rmdirTried

\* C6 (as claimed): no run ends with the exception of a failed removal
\* (os.rmdir in run, os.remove in upload_results).
C6_CleanupFailureNeverFailsRun ==
    ~(pc = "raised" /\ raised \in {"rmdir", "remove"})

C8_ExportFailureDoesNotAbort ==
    (pc \notin {"run", "extract_images", "export"} /\ ~Rejected)
        => idx > Len(images)

\* C9: the names extract_images has collected are the paths
\* '<tmp_dir>/<id>.ome.tif' of the images visited so far that are not None,
\* in list order; when it returns these are the paths of the whole list.
C9_NamesAreResolvablePathsInOrder ==
    /\ pc = "export" =>
          /\ idx <= Len(images) + 1
          /\ image_names = PathsOf(tmp_dir, SubSeq(images, 1, idx - 1))
    /\ (pc \notin {"run", "extract_images", "export", "raised"} /\ ~Rejected) =>
          /\ tmp_dir \in dirs \/ rmdirTried
          /\ image_names = PathsOf(tmp_dir, images)

\* C9 witness: extract_images returned a name after skipping a None entry
C9_Witness ==
    /\ pc = "run_imagej" /\ Len(images) > 1
    /\ images[1] = NoneImg /\ image_names # <<>>

\* C10 (as claimed): once run_imagej is past the macro loop, the script has
\* one block per exported image, in order, each with the dimensions and
\* channel indices of the image whose file it opens.
C10_OneBlockPerExportedImage ==
    (/\ pc \notin {"run", "extract_images", "export", "run_imagej"}
     /\ ~Rejected /\ raised # "export" /\ image_names # <<>>) =>
        /\ Len(script) = Len(image_names)
        /\ \A i \in DOMAIN script :
              script[i] = Block(variant, params, image_names[i],
                                image_names[i].id)

(***************************************************************************)
(* Channel resolution                                                      *)
(***************************************************************************)
\* find_channel_index has returned for the probed image
Resolved == probe.stage \in {"found", "checked"}

\* the 0-based positions of the channels named c
NamedPositions(chs, c) == {i \in 0..(Len(chs) - 1) : chs[i + 1] = c}

\* the channel names are distinct and none is a decimal number in 1..n
PlainNames(chs) ==
    /\ \A i, j \in DOMAIN chs : chs[i] = chs[j] => i = j
    /\ \A i, k \in DOMAIN chs : chs[i] # str(k)

\* C11: when some channel's name equals the selector, find_channel_index
\* returns the index of a channel with that name; the selector is read as a
\* 1-based position only when no channel has that name.
C11_NameMatchTakesPrecedence ==
    (Resolved /\ NamedPositions(probe.chs, probe.c) # {})
        => probe.index \in NamedPositions(probe.chs, probe.c)

\* C12: for an image with n channels whose names are distinct and are not
\* decimal numbers in 1..n, the name of the channel at 0-based position i
\* resolves to i, the decimal string of k in 1..n resolves to k-1, and any
\* other selector resolves to -1 and makes check_parameters return False.
C12_ResolutionOfPlainNames ==
    (probe.stage = "checked" /\ PlainNames(probe.chs)) =>
        LET n == Len(probe.chs) IN
        /\ \A i \in 0..(n - 1) : probe.chs[i + 1] = probe.c => probe.index = i
        /\ \A k \in 1..n : str(k) = probe.c => probe.index = k - 1
        /\ ( /\ NamedPositions(probe.chs, probe.c) = {}
             /\ \A k \in 1..n : str(k) # probe.c )
           => (probe.index = -1 /\ ~probe.ok)

\* an image with two plainly named channels, one of them a number past the
\* channel count, was asked for a channel it does not have
C12_Witness ==
    /\ probe.stage = "checked"
    /\ probe.chs = <<"3", "GFP">>
    /\ probe.c = "Cy5"
    /\ probe.index = -1
    /\ ~probe.ok

(***************************************************************************)
(* The command blocks of the colocalisation script                         *)
(***************************************************************************)
\* C13: every command block of the colocalisation script carries channel_1
\* and channel_2 as the resolved 0-based index plus one (so at least 1), and
\* channel_3 as '[None]' when no third channel was supplied and as the
\* resolved index plus one when one was supplied; it is never left out.
C13_BlocksCarryOneBasedChannels ==
    variant = "colocalisation" =>
        \A i \in DOMAIN script :
            LET a == script[i].args
                img == script[i].open.id
                n == Len(getChannels(img))
            IN /\ a.channel_1 = find_channel_index(img, params.ch1) + 1
               /\ a.channel_2 = find_channel_index(img, params.ch2) + 1
               /\ a.channel_1 \in 1..n /\ a.channel_2 \in 1..n
               /\ a.channel_3 \in {"[None]"} \cup {str(k) : k \in 1..n}
               /\ params.ch3 = "" => a.channel_3 = "[None]"
               /\ params.ch3 # "" =>
                      /\ find_channel_index(img, params.ch3) >= 0
                      /\ a.channel_3 = str(find_channel_index(img, params.ch3) + 1)

\* a script of two blocks was written for a run without a third channel
C13_Witness ==
    /\ variant = "colocalisation"
    /\ params.ch3 = ""
    /\ Len(script) = 2
    /\ script[1].open.id # script[2].open.id
    /\ \A i \in DOMAIN script : script[i].args.channel_3 = "[None]"

(***************************************************************************)
(* The order of the steps of a run                                         *)
(***************************************************************************)
\* the loop of extract_images has passed every image
ExportsComplete == idx > Len(images)

\* a block was written for every exported image and the macro file exists
ScriptComplete ==
    /\ Len(script) = Len(image_names)
    /\ MacroFile(tmp_dir) \in files

\* something was handed out: an attachment linked or a message sent
Distributes == attachments' # attachments \/ emails' # emails

\* C14: within one run all exports complete before the script is written,
\* the script is completely written before the tool is invoked, the tool has
\* exited before the capture is parsed, extraction completes before any
\* attachment is uploaded or e-mail sent, and the workspace directory is
\* removed after all distribution.
C14_StepsStrictlyOrdered ==
    [][ /\ script' # script =>
              (ExportsComplete /\ image_names' = image_names /\ idx' = idx)
        /\ script # <<>> => (image_names' = image_names /\ idx' = idx)
        /\ tool' # tool => (tool = "notrun" /\ ScriptComplete /\ script' = script)
        /\ tool # "notrun" => (script' = script /\ tool' = tool)
        /\ parsed' # parsed => (tool = "ok" /\ ~parsed)
        /\ results' # results => (tool = "ok" /\ ~parsed /\ parsed')
        /\ Distributes =>
              (parsed /\ pc \notin {"extract_results", "delete_temp"}
                      /\ results' = results /\ ~rmdirTried /\ ~rmdirTried')
        /\ rmdirTried => ~Distributes
      ]_vars

\* a run that exported, wrote the script, ran the tool, parsed its output,
\* attached and mailed the results and removed the directory
C14_Witness ==
    /\ pc = "done"
    /\ Len(script) = 2
    /\ tool = "ok"
    /\ parsed
    /\ attachments # <<>>
    /\ emails > 0
    /\ rmdirTried

(***************************************************************************)
(* The result map of extract_results                                       *)
(***************************************************************************)
\* extract_results has returned
Returned == parse.eof

\* a line that opens a block: the header (colocalisation), a label (correlation)
IsStart(g, line) == IF g = "colocalisation" THEN IsHeader(line) ELSE IsLabel(line)

\* a data row of a block
IsRow(g, line) == IF g = "colocalisation" THEN IsData(line) ELSE StartsWithT(line)

\* the positions at which a block opens
Starts(g, lines) == {i \in DOMAIN lines : IsStart(g, lines[i])}

\* the last line of the block that opens at s, when every line is a block line
BlockEnd(g, lines, s) ==
    IF \E j \in Starts(g, lines) : j > s
    THEN (CHOOSE j \in Starts(g, lines) :
            j > s /\ \A k \in Starts(g, lines) : k > s => j <= k) - 1
    ELSE Len(lines)

\* the data rows of the block that opens at s
RowsOf(g, lines, s) == SubSeq(lines, s + 1, BlockEnd(g, lines, s))

\* the image id of the block that opens at s
BlockId(g, lines, s) ==
    IF g = "colocalisation" THEN lines[s + 1].id ELSE lines[s].id

\* lines is a concatenation of single-image blocks with distinct image ids,
\* each a header or label line followed by one or more data rows
Concatenation(g, lines) ==
    /\ lines # <<>>
    /\ IsStart(g, lines[1])
    /\ \A i \in DOMAIN lines : IsStart(g, lines[i]) \/ IsRow(g, lines[i])
    /\ \A s \in Starts(g, lines) :
          /\ BlockEnd(g, lines, s) > s
          /\ \A i \in (s + 1)..BlockEnd(g, lines, s) :
                g = "colocalisation" => lines[i].id = lines[s + 1].id
    /\ \A s, t \in Starts(g, lines) :
          BlockId(g, lines, s) = BlockId(g, lines, t) => s = t

\* the data rows as an entry holds them: the text after the file name for
\* the colocalisation plugin, the line itself for the correlation plugin
RECURSIVE Held(_, _)
Held(g, rows) ==
    IF rows = <<>> THEN <<>>
    ELSE <<IF g = "colocalisation" THEN Line("rest", 0, Head(rows).v)
           ELSE Head(rows)>> \o Held(g, Tail(rows))

\* C15: for both grammars, a standard output that is a concatenation of N
\* single-image blocks with pairwise distinct ids (a header or label line and
\* one or more data rows each) yields a map with exactly N entries, one per
\* image id, whose data rows are exactly those of the block, in their order.
C15_BlocksParseToTheirRows ==
    (Returned /\ Concatenation(parse.g, parse.lines)) =>
        LET g == parse.g
            lines == parse.lines
        IN /\ DOMAIN parse.results =
                 {BlockId(g, lines, s) : s \in Starts(g, lines)}
           /\ Cardinality(DOMAIN parse.results) = Cardinality(Starts(g, lines))
           /\ \A s \in Starts(g, lines) :
                 Tail(parse.results[BlockId(g, lines, s)])
                    = Held(g, RowsOf(g, lines, s))

\* two blocks, of one row for image 2 and then of two rows for image 1,
\* were parsed
C15_Witness ==
    /\ Returned
    /\ Concatenation(parse.g, parse.lines)
    /\ BlockId(parse.g, parse.lines, 1) = 2
    /\ Cardinality(Starts(parse.g, parse.lines)) = 2
    /\ Len(parse.lines) = 5
    /\ DOMAIN parse.results = {1, 2}
    /\ Len(parse.results[1]) = 3
    /\ parse.results[1][2] # parse.results[1][3]

(***************************************************************************)
(* Lines inserted around the blocks of the correlation output              *)
(***************************************************************************)
\* lines without the lines at the positions I, from position i on
RECURSIVE Without(_, _, _)
Without(lines, I, i) ==
    IF i > Len(lines) THEN <<>>
    ELSE (IF i \in I THEN <<>> ELSE <<lines[i]>>) \o Without(lines, I, i + 1)

\* the line at i is followed, among the lines not in I, by a label or by
\* nothing: it stands before, between or after the blocks, not inside one
OutsideBlocks(lines, I, i) ==
    \A j \in DOMAIN lines :
        (j > i /\ j \notin I /\ \A k \in (i + 1)..(j - 1) : k \in I)
            => IsLabel(lines[j])

\* the ways to read lines as two valid blocks with lines inserted before,
\* between or after them: the positions of the inserted lines, none of them
\* a label and, when plain, none of them a line that starts with "t"
Insertions(lines, plain) ==
    {I \in SUBSET (DOMAIN lines) :
        /\ I # {}
        /\ \A i \in I : ~IsLabel(lines[i])
        /\ \A i \in I : plain => ~StartsWithT(lines[i])
        /\ \A i \in I : OutsideBlocks(lines, I, i)
        /\ Concatenation("correlation", Without(lines, I, 1))
        /\ Cardinality(Starts("correlation", Without(lines, I, 1))) = 2}

\* C16 as stated: for the correlation grammar, inserting lines that are not
\* labels before, between or after two valid blocks leaves the extracted map
\* identical to the map extracted without those lines.
C16_InsertedLinesLeaveMapUnchanged ==
    (Returned /\ parse.g = "correlation") =>
        \A I \in Insertions(parse.lines, FALSE) :
            parse.results = extract_results("correlation", Without(parse.lines, I, 1))

\* C16 amended: for the correlation grammar, inserting lines that are not
\* labels and do not start with "t" before, between or after two valid
\* blocks leaves the extracted map identical to the map extracted without
\* those lines.
C16_InsertedPlainLinesLeaveMapUnchanged ==
    (Returned /\ parse.g = "correlation") =>
        \A I \in Insertions(parse.lines, TRUE) :
            parse.results = extract_results("correlation", Without(parse.lines, I, 1))

\* an output with one line inserted before and one between two blocks was
\* parsed to the two entries of the blocks
C16_Witness ==
    /\ Returned
    /\ parse.g = "correlation"
    /\ \E I \in Insertions(parse.lines, TRUE) : I = {1, 4}
    /\ DOMAIN parse.results = {1, 2}
    /\ \A id \in {1, 2} : Len(parse.results[id]) = 2

\* C17: for every standard output and both grammars the returned map has no
\* entry without parsed data rows: a header or label line followed by no
\* data row produces no entry, and in particular none under the placeholder
\* id 0 (a map holds each image id at most once by construction).
C17_NoEntryWithoutRows ==
    Returned =>
        \A id \in DOMAIN parse.results :
            /\ id # 0
            /\ Len(parse.results[id]) > 1

(***************************************************************************)
(* The report                                                              *)
(***************************************************************************)
\* the lines after the first line of the blocks of the ids in S
RECURSIVE NonHeaderLines(_, _)
NonHeaderLines(res, S) ==
    IF S = {} THEN 0
    ELSE LET id == CHOOSE x \in S : TRUE
         IN (Len(res[id]) - 1) + NonHeaderLines(res, S \ {id})

\* create_report has returned
Reported == report # <<>>

\* C18: the number of rows of the report after its header row equals the
\* sum, over the image ids in the result map, of the number of non-header
\* lines of the id's block.
C18_ReportRowsAreBlockRows ==
    Reported => Len(report) - 1 = NonHeaderLines(results, DOMAIN results)

\* a report was built from a map with two image ids, one of them with a row
C18_Witness ==
    /\ Reported
    /\ DOMAIN results = {1, 2}
    /\ Len(report) = 2
    /\ report[2].id \in {1, 2}

(***************************************************************************)
(* The attachments                                                         *)
(***************************************************************************)
\* run() returned after a distribution with uploads and without e-mail
UploadOnlyRunEnded ==
    /\ pc = "done"
    /\ parsed
    /\ params.upload
    /\ ~params.email

\* the attachments carry the ids of the map and the name of the variant
AttachmentsOfTheMap ==
    /\ Len(attachments) = Cardinality(DOMAIN results)
    /\ {attachments[i].img : i \in DOMAIN attachments} = DOMAIN results
    /\ \A i \in DOMAIN attachments :
          /\ attachments[i].name.id = attachments[i].img
          /\ attachments[i].name.name = create_result_name(variant, params)
          /\ (variant = "correlation" /\ ~params.intersect /\ ~params.aggregate)
                => attachments[i].name.name
                      = <<Tok("Correlation", ""), Tok("Method", params.method)>>

\* a run over a single image whose block is in the tool output
SingleImageWithBlock == Len(images) = 1 /\ images[1] \in DOMAIN results

\* C19: with upload on and e-mail off a run over a single image whose block
\* is in the tool output creates exactly one attachment, linked to that
\* image, and returns 1; in general there are as many attachments as image
\* ids in the result map, each named '<imageId>.' and the result name of the
\* variant, which is 'Correlation_M.csv' for the correlation analyser with
\* method M and no switches.
C19_OneAttachmentPerMapEntry ==
    UploadOnlyRunEnded =>
        /\ AttachmentsOfTheMap
        /\ SingleImageWithBlock =>
              /\ Len(attachments) = 1
              /\ attachments[1].img = images[1]
              /\ ret = 1

\* C20: the temporary per-image file written for an attachment is removed
\* right after the registration attempt whether createFileAnnfromLocalFile
\* and linkAnnotation succeed or fail, so none remains in the workspace once
\* upload_results is left (an os.remove that itself fails set aside).
C20_TempFileRemovedAfterAttempt ==
    (pc # "upload" /\ raised # "remove") =>
        \A f \in files : f.t # "tmp"

(***************************************************************************)
(* Failures of the distribution                                            *)
(***************************************************************************)
\* the run was ended by an exception of the upload or of the e-mail
DistributionAborted == pc = "raised" /\ raised \in {"upload", "email"}

\* C21: a distribution failure degrades gracefully: a failed upload for one
\* image or a failed e-mail submission keeps the attachments made so far
\* and does not abort the run, which goes on to the e-mail (when enabled),
\* to the teardown and to returning its processed count.
C21_DistributionFailureDoesNotAbort == ~DistributionAborted

(***************************************************************************)
(* The e-mail address                                                      *)
(***************************************************************************)
\* the address is a local part, '@' and a domain that holds a literal dot
\* followed by a final segment of 2 to 6 letters
DottedShape(a) ==
    \E at \in DOMAIN a, d \in DOMAIN a :
        /\ a[at] = "@"
        /\ at > 1
        /\ d > at + 1
        /\ a[d] = "."
        /\ (Len(a) - d) \in 2..6
        /\ \A i \in (d + 1)..Len(a) : IsLetter(a[i])

\* the part of the address after its first '@' holds a dot
DotAfterAt(a) ==
    \E at \in DOMAIN a, d \in DOMAIN a :
        /\ a[at] = "@"
        /\ \A i \in 1..(at - 1) : a[i] # "@"
        /\ d > at
        /\ a[d] = "."

\* C23: validate_email accepts an address only if it is a local part, '@'
\* and a domain with at least one literal dot followed by a final segment of
\* 2 to 6 letters; every address without a dot after the '@' is rejected.
C23_AcceptedAddressHasDottedDomain ==
    (client.stage = "validated" /\ client.valid) =>
        (DottedShape(client.to) /\ DotAfterAt(client.to))

\* neither the supplied address nor the address of the profile is valid
NoValidAddress ==
    /\ ~validate_email(client.email, <<>>).ok
    /\ ~validate_email(client.profile, <<>>).ok

\* the entry point has passed its check of the address
PastAddressCheck == client.stage \in {"called", "closed"}

\* nothing was exported, executed, attached or mailed
NothingDone ==
    /\ images = <<>> /\ dirs = {} /\ files = {} /\ image_names = <<>>
    /\ script = <<>> /\ tool = "notrun" /\ ~parsed
    /\ attachments = <<>> /\ emails = 0

\* C22: when e-mail is requested and neither the supplied address nor the
\* address of the user's profile passes validate_email, the entry point
\* reports 'No valid email address' and run() is never called, so nothing is
\* exported, executed, attached or mailed; when e-mail is not requested the
\* address is not validated and does not block the run.
C22_InvalidAddressBlocksOnlyEmailRuns ==
    PastAddressCheck =>
        /\ (params.email /\ NoValidAddress) =>
              /\ client.stage = "closed"
              /\ client.message = "No valid email address"
              /\ pc = "exit"
              /\ NothingDone
        /\ ~params.email =>
              /\ client.message # "No valid email address"
              /\ ~client.valid
              /\ pc # "exit" \/ client.message \in {"Processed", "Errors found"}

\* an e-mail run of a user without a valid address was turned away
C22_Witness ==
    /\ pc = "exit"
    /\ params.email
    /\ params.ids # <<>>
    /\ client.email = <<>>
    /\ client.profile = BadAddress
    /\ client.message = "No valid email address"

(***************************************************************************)
(* The workspace directory                                                 *)
(***************************************************************************)
\* the directory this run has made with mkdtemp, while it exists
Workspace == IF tmp_dir = NewDir /\ NewDir \in dirs THEN {NewDir} ELSE {}

\* C24: every file the pipeline creates during a run (the exported images,
\* the script file, the capture file, the temporary files of the
\* attachments) is created inside the workspace directory that run created;
\* the run writes no file outside it.
C24_FilesCreatedInsideWorkspace ==
    [][\A f \in files' \ files : f.dir \in Workspace]_vars

\* an exported image, the script file and the capture file exist
C24_Witness ==
    /\ {"ome", "macro", "stdout"} \subseteq {f.t : f \in files}
    /\ \A f \in files : f.dir = NewDir

\* C25: no two concurrent runs share a workspace: when two runs are
\* interleaved within one process, each run writes its script, its capture
\* file and the temporary files of its attachments into, and finally
\* removes, only the directory that this same run created.
C25_RunsKeepToTheirOwnDirectory ==
    /\ \A w \in duo.written : w.dir = duo.made[w.run]
    /\ \A x \in duo.removed : x.dir = duo.made[x.run]

(***************************************************************************)
(* The parsers line by line                                                *)
(***************************************************************************)
\* C26: in the colocalisation grammar every data row stored in the result
\* map is stored under the image id of its own '<id>.ome.tif' prefix, also
\* when data rows after one header line carry different image ids: a stored
\* row is the text of a data line of the output that names the entry's id.
C26_RowsStoredUnderTheirOwnId ==
    (Returned /\ parse.g = "colocalisation") =>
        \A id \in DOMAIN parse.results :
            \A i \in 2..Len(parse.results[id]) :
                \E j \in DOMAIN parse.lines :
                    /\ IsData(parse.lines[j])
                    /\ parse.lines[j].id = id
                    /\ Group2(parse.lines[j]) = parse.results[id][i]

\* the parser is inside a result
Inside(g, st) == IF g = "colocalisation" THEN st.extract_result ELSE st.image_id # 0

\* the first line of the block a header or label line opens
Seed(g, line) == IF g = "colocalisation" THEN Line("cols", 0, line.v) ELSE line

\* the loop reads the line at parse.pos in this step
Reads == parse.g # "none" /\ parse'.pos = parse.pos + 1

\* C27: in both grammars no line is dropped at a block boundary: when the
\* parser is inside a result and reads a line that is not a data row, it
\* stores the current block and looks at that same line as a possible new
\* header, so a header or label line right after the last data row of a
\* block opens the next block.
C27_BoundaryLineIsLookedAtAgain ==
    [][ LET g == parse.g
            st == parse.st
            line == parse.lines[parse.pos]
        IN (Reads /\ Inside(g, st) /\ ~IsRow(g, line)) =>
              /\ parse'.st.results = DictPut(st.results, st.image_id, st.result)
              /\ IF IsStart(g, line)
                 THEN /\ Inside(g, parse'.st)
                      /\ parse'.st.result = <<Seed(g, line)>>
                      /\ g = "correlation" => parse'.st.image_id = line.id
                 ELSE ~Inside(g, parse'.st)
      ]_vars

\* a header or label line right after a data row was read: the block before
\* it is stored and the next block is open
C27_Witness ==
    /\ parse.g # "none"
    /\ parse.pos = 4
    /\ IsStart(parse.g, parse.lines[1])
    /\ IsRow(parse.g, parse.lines[2])
    /\ IsStart(parse.g, parse.lines[3])
    /\ Inside(parse.g, parse.st)
    /\ DOMAIN parse.st.results # {}
    /\ Len(parse.st.result) = 1

\* a line that is neither a header, a label nor a data row
OtherLine == Line("txt", 0, 1)

\* C28: in both grammars, when the output ends while the parser is inside a
\* result with at least one accumulated data row, the accumulated block is
\* stored under its image id exactly as it would have been had a line that
\* is not a data row followed.
C28_EndOfFileStoresOpenBlock ==
    (Returned /\ Inside(parse.g, parse.st) /\ Len(parse.st.result) > 1) =>
        /\ parse.st.image_id \in DOMAIN parse.results
        /\ parse.results[parse.st.image_id] = parse.st.result
        /\ parse.results
              = extract_results(parse.g, Append(parse.lines, OtherLine))

\* an output that ended right after the second data row of its second block
C28_Witness ==
    /\ Returned
    /\ Inside(parse.g, parse.st)
    /\ Len(parse.st.result) = 3
    /\ DOMAIN parse.st.results # {}
    /\ parse.st.image_id \notin DOMAIN parse.st.results
    /\ parse.results[parse.st.image_id] = parse.st.result

\* C29: in both grammars, while the parser is outside a result, reading a
\* line that is not a header or label line changes neither the result map
\* nor the state of the parser, which stays outside with no active image id.
C29_SkippedLineChangesNothing ==
    [][ LET g == parse.g
            st == parse.st
            line == parse.lines[parse.pos]
        IN (Reads /\ ~Inside(g, st) /\ ~IsStart(g, line)) =>
              /\ parse'.st = st
              /\ ~Inside(g, parse'.st)
              /\ parse'.st.image_id = 0
              /\ parse'.results = parse.results
      ]_vars

\* a line of another shape was read outside a result, after a stored block
C29_Witness ==
    /\ parse.g # "none"
    /\ ~Returned
    /\ parse.pos = 5
    /\ parse.lines[3] = OtherLine
    /\ parse.lines[4] = OtherLine
    /\ ~Inside(parse.g, parse.st)
    /\ DOMAIN parse.st.results # {}

(***************************************************************************)
(* The gates of the distribution                                           *)
(***************************************************************************)
\* C30: distribution is gated by its flags and by the result map: an
\* attachment is created only if upload is enabled, an e-mail is submitted
\* only if e-mail is enabled, at most one e-mail is submitted per run, and
\* with an empty result map neither is produced whatever the flags.
C30_DistributionIsGated ==
    /\ attachments # <<>> => params.upload
    /\ emails > 0 => params.email
    /\ emails <= 1
    /\ DOMAIN results = {} => (attachments = <<>> /\ emails = 0)

\* a run with upload off and e-mail on has mailed its results and attached
\* nothing
C30_Witness ==
    /\ pc = "done"
    /\ ~params.upload
    /\ params.email
    /\ DOMAIN results # {}
    /\ emails = 1
    /\ attachments = <<>>

(***************************************************************************)
(* The end of a run                                                        *)
(***************************************************************************)
\* run() passed validation and returned without any step raising
ReturnedAfterValidation == pc = "done" /\ ret >= 0 /\ raised = "none"

\* C31: after a run that passed validation and in which no step raised, the
\* workspace directory and every file the run created in it no longer exist
\* when run() returns, also when no image was exported and when upload is on.
C31_NothingLeftAfterCleanRun ==
    ReturnedAfterValidation => (dirs = {} /\ files = {} /\ rmdirTried)

\* a run with upload on has attached its results and returned
C31_Witness ==
    /\ ReturnedAfterValidation
    /\ params.upload
    /\ Len(attachments) = 2
    /\ tmp_dir = NewDir
    /\ dirs = {}
    /\ files = {}

(***************************************************************************)
(* extract_images: the chunked export loop on its own                      *)
(***************************************************************************)
Bytes == {0, 1}

Min(a, b) == IF a < b THEN a ELSE b

\* `e.read(read, 1000000)`: up to n bytes of the stream from the offset
ExporterRead(stream, offset, n) ==
    SubSeq(stream, offset + 1, Min(offset + n, Len(stream)))

\* after `length = e.generateTiff()`, `out = open(name, 'wb')`, `read = 0`
ExportInit ==
    /\ sizer = NoSizer
    /\ exporter \in [stream : SeqsUpTo(Bytes, MaxStream), read : {0},
                     out : {<<>>}, requests : {<<>>}, chunks : {<<>>},
                     stage : {"open"}]
    /\ duo = NoDuo
    /\ client = NoClient
    /\ probe = NoProbe
    /\ parse = NoParse
    /\ variant = "correlation"
    /\ params = ProbeParams("2")
    /\ RunEntry

\* variant of the loop body that never advances the offset
ReadChunk_NoAdvance ==
    /\ exporter.stage = "open"
    /\ LET buf == ExporterRead(exporter.stream, exporter.read, ChunkSize)
       IN exporter' =
            [exporter EXCEPT
               !.requests = Append(@, exporter.read),
               !.chunks = Append(@, Len(buf)),
               !.out = @ \o buf,
               !.stage = IF Len(buf) < ChunkSize THEN "written" ELSE "open"]
    /\ UNCHANGED <<sizer, duo, client, probe, parse, runVars>>

\* one pass of `while True`: read a chunk at the offset, write it, leave the
\* loop after a short chunk, advance the offset otherwise
ReadChunk ==
    /\ exporter.stage = "open"
    /\ LET buf == ExporterRead(exporter.stream, exporter.read, ChunkSize)
       IN exporter' =
            [exporter EXCEPT
               !.requests = Append(@, exporter.read),
               !.chunks = Append(@, Len(buf)),
               !.out = @ \o buf,
               !.stage = IF Len(buf) < ChunkSize THEN "written" ELSE "open",
               !.read = IF Len(buf) < ChunkSize THEN @ ELSE @ + Len(buf)]
    /\ UNCHANGED <<sizer, duo, client, probe, parse, runVars>>

\* `e.read` raises: the `finally` closes the exporter and the exception
\* leaves extract_images
ReadRaises ==
    /\ exporter.stage = "open"
    /\ exporter' = [exporter EXCEPT !.stage = "raised"]
    /\ UNCHANGED <<sizer, duo, client, probe, parse, runVars>>

\* `out.close()` and the `finally: e.close()`
CloseOut ==
    /\ exporter.stage = "written"
    /\ exporter' = [exporter EXCEPT !.stage = "closed"]
    /\ UNCHANGED <<sizer, duo, client, probe, parse, runVars>>

ExportNext == ReadChunk \/ ReadRaises \/ CloseOut

\* the interpreter keeps executing the loop: a statement that can run does
SpecExport == ExportInit /\ [][ExportNext]_vars /\ WF_vars(ExportNext)

\* the loop was left through `break`
LoopLeft == exporter.stage \in {"written", "closed"}

\* the requests made so far are at the offsets 0, C, 2C, ...
ConsecutiveOffsets ==
    \A i \in 1..Len(exporter.requests) :
        exporter.requests[i] = (i - 1) * ChunkSize

\* every chunk before the last one received is a full chunk
FullChunksBeforeLast ==
    \A i \in 1..Len(exporter.chunks) :
        i < Len(exporter.chunks) => exporter.chunks[i] = ChunkSize

\* the loop stopped at the first short chunk, which holds the remainder of
\* the stream (nothing when the length is a multiple of the chunk size)
StoppedAtShortChunk ==
    /\ Len(exporter.chunks) = (Len(exporter.stream) \div ChunkSize) + 1
    /\ exporter.chunks[Len(exporter.chunks)] = Len(exporter.stream) % ChunkSize
    /\ exporter.chunks[Len(exporter.chunks)] < ChunkSize

ExportLoopSafe ==
    /\ ConsecutiveOffsets
    /\ FullChunksBeforeLast
    /\ Len(exporter.requests) = Len(exporter.chunks)
    /\ exporter.stage = "open" =>
         /\ exporter.out = SubSeq(exporter.stream, 1, exporter.read)
         /\ \A i \in 1..Len(exporter.chunks) : exporter.chunks[i] = ChunkSize
    /\ LoopLeft => (StoppedAtShortChunk /\ exporter.out = exporter.stream)

\* C32: the chunked export loop terminates for every finite stream, requests
\* chunks at the consecutive offsets 0, C, 2C, ..., stops at the first chunk
\* shorter than C (an empty one when the length is a multiple of C), and the
\* bytes written equal the stream's bytes in order.
C32_ChunkedExportCopiesTheStream ==
    /\ [](exporter.stage # "off" => ExportLoopSafe)
    /\ <>(exporter.stage \in {"closed", "raised"})

\* a stream of two full chunks was copied: three requests, the last one empty
C32_Witness ==
    /\ exporter.stage = "closed"
    /\ Len(exporter.stream) = 2 * ChunkSize
    /\ exporter.requests = <<0, ChunkSize, 2 * ChunkSize>>
    /\ exporter.chunks = <<ChunkSize, ChunkSize, 0>>
    /\ exporter.out = exporter.stream

(***************************************************************************)
(* The rows of the report                                                  *)
(***************************************************************************)
\* the report row is made of the image's project, dataset, id and base name
\* and of a line of the image's block that is not the block's first line
RowOfBlock(r) ==
    /\ r.k = "row"
    /\ r.id \in DOMAIN results
    /\ Found(r.id)
    /\ r.project = (IF r.id = 1 THEN "P1" ELSE "-")
    /\ r.dataset = (IF r.id = 1 THEN "D1" ELSE "D2")
    /\ r.name = BaseName(r.id)
    /\ \E j \in 2..Len(results[r.id]) : r.line = results[r.id][j]
    /\ r.line # results[r.id][1]

BlockSequence(g, lines) ==
    /\ lines # <<>>
    /\ IsStart(g, lines[1])
    /\ \A i \in DOMAIN lines : IsStart(g, lines[i]) \/ IsRow(g, lines[i])
    /\ \A s \in Starts(g, lines) :
          /\ BlockEnd(g, lines, s) > s
          /\ \A i \in (s + 1)..BlockEnd(g, lines, s) :
                g = "colocalisation" => lines[i].id = lines[s + 1].id

\* two blocks of the sequence are of the same image
RepeatedBlock(g, lines) ==
    \E s, t \in Starts(g, lines) :
        s < t /\ BlockId(g, lines, s) = BlockId(g, lines, t)

\* the opening position of the last block of the image
LastBlockOf(g, lines, id) ==
    CHOOSE s \in Starts(g, lines) :
        /\ BlockId(g, lines, s) = id
        /\ \A t \in Starts(g, lines) : BlockId(g, lines, t) = id => t <= s

\* C34: when the capture file holds two separate blocks for the same image
\* id, the result map holds a single entry for that id with only the rows of
\* the last such block, and the count of processed images, the size of the
\* map, counts that image once.
C34_LastBlockOfAnImageWins ==
    (Returned /\ BlockSequence(parse.g, parse.lines)
              /\ RepeatedBlock(parse.g, parse.lines)) =>
        LET g == parse.g
            lines == parse.lines
            ids == {BlockId(g, lines, s) : s \in Starts(g, lines)}
        IN /\ DOMAIN parse.results = ids
           /\ Cardinality(DOMAIN parse.results) = Cardinality(ids)
           /\ \A id \in ids :
                 Tail(parse.results[id])
                    = Held(g, RowsOf(g, lines, LastBlockOf(g, lines, id)))

\* image 1 has a block of two rows and later a block of one other row, with
\* a block of image 2 between them
C34_Witness ==
    /\ Returned
    /\ BlockSequence(parse.g, parse.lines)
    /\ Cardinality(Starts(parse.g, parse.lines)) = 3
    /\ BlockId(parse.g, parse.lines, 1) = 1
    /\ BlockEnd(parse.g, parse.lines, 1) = 2
    /\ BlockId(parse.g, parse.lines, 3) = 2
    /\ BlockId(parse.g, parse.lines, 5) = 1
    /\ DOMAIN parse.results = {1, 2}
    /\ Tail(parse.results[1]) = Held(parse.g, <<parse.lines[6]>>)
    /\ Tail(parse.results[1]) # Held(parse.g, <<parse.lines[2]>>)

(***************************************************************************)
(* A selection that names no image                                         *)
(***************************************************************************)
\* run() has built its image list from a non-empty identifier list and the
\* list holds no image: it is empty or holds None entries only
ResolvesToNoImage ==
    /\ pc # "run"
    /\ params.ids # <<>>
    /\ \A i \in DOMAIN images : images[i] = NoneImg

\* the run made a workspace, removed it again and returned 0, and on its way
\* wrote no file, ran no tool and distributed nothing
NothingButWorkspace ==
    /\ files = {} /\ script = <<>> /\ tool = "notrun" /\ ~parsed
    /\ attachments = <<>> /\ emails = 0 /\ report = <<>>
    /\ pc \notin {"raised", "invoke", "extract_results", "upload"}
    /\ pc = "done" =>
         (ret = 0 /\ tmp_dir = NewDir /\ dirs = {} /\ rmdirTried)

\* C35 as stated: whenever the identifier list is non-empty but resolves to
\* zero images, or to unresolvable entries only, run() passes validation,
\* creates and removes a workspace, never writes a script, never invokes the
\* tool, distributes nothing and returns 0 rather than -1.
C35_EmptySelectionReturnsZero ==
    ResolvesToNoImage => NothingButWorkspace

\* the parameters that check_parameters tests without looking at an image
OptionsValid ==
    /\ params.upload \/ params.email
    /\ variant = "colocalisation" => params.shift[2] > params.shift[1]

\* C35, amended: the same, for runs in which a result option is selected
\* and, for the colocalisation analyser, the maximum shift is greater than
\* the minimum shift.
C35_EmptySelectionWithValidOptionsReturnsZero ==
    (ResolvesToNoImage /\ OptionsValid) => NothingButWorkspace

\* a run over None entries only has returned 0 after removing its workspace
C35_Witness ==
    /\ ResolvesToNoImage
    /\ OptionsValid
    /\ images = <<NoneImg, NoneImg>>
    /\ pc = "done"
    /\ ret = 0
    /\ tmp_dir = NewDir
    /\ dirs = {}

(***************************************************************************)
(* Image_Size.run and Check_Images.run                                     *)
(***************************************************************************)
SizeScripts == {"Image_Size", "Check_Images"}

\* the original files of the server and `origFile.size.val`
OrigFileIds == {1, 2}

FileSize(f) == IF f = 1 THEN 3 ELSE 5

\* the rows the PixelsOriginalFileMap query may return for one image
OrigFileLists ==
    {fs \in SeqsUpTo(OrigFileIds, MaxOrigFiles) :
        \A i, j \in DOMAIN fs : fs[i] = fs[j] => i = j}

\* list(conn.getObjects('Image')): every image of the server
AllImages == <<1, 2>>

getSizeX(img) == 2

getSizeY(img) == IF img = 1 THEN 1 ELSE 2

getPixelsType(img) == IF img = 1 THEN "uint16" ELSE "float"

\* bytes_per_pixel; -1 stands for `raise Exception("Unknown pixel type")`
bytes_per_pixel(pixel_type) ==
    CASE pixel_type \in {"int8", "uint8"} -> 1
      [] pixel_type \in {"int16", "uint16"} -> 2
      [] pixel_type \in {"int32", "uint32", "float"} -> 4
      [] pixel_type = "double" -> 8
      [] OTHER -> -1

\* `bytes = x * y * c * z * t * bytes_per_pixel(img.getPixelsType())`
ImageBytes(img) ==
    getSizeX(img) * getSizeY(img) * getSizeC(img) * getSizeZ(img)
        * getSizeT(img) * bytes_per_pixel(getPixelsType(img))

\* has_data(plane) of the final plane: the last plane of image 2 is all zero
has_data(img) == img = 1

\* conn.getObjects(data type, ids) as the ids of the objects, in the order
\* of the ids; an id that names nothing yields nothing, or None when asNone
RECURSIVE ObjectsOf(_, _, _)
ObjectsOf(known, ids, asNone) ==
    IF ids = <<>> THEN <<>>
    ELSE (IF Head(ids) \in known THEN <<Head(ids)>>
          ELSE IF asNone THEN <<NoneImg>> ELSE <<>>)
         \o ObjectsOf(known, Tail(ids), asNone)

\* `for ds in objects: images.extend(list(ds.listChildren()))`
RECURSIVE ExtendChildren(_)
ExtendChildren(objects) ==
    IF objects = <<>> THEN <<>>
    ELSE listChildren(Head(objects)) \o ExtendChildren(Tail(objects))

\* variant of the duplicate filter that keeps every element
Dedupe_KeepsAll(xs, seen) == xs

\* `[x for x in images if x.id not in seen and not seen.add(x.id)]`
RECURSIVE Dedupe(_, _)
Dedupe(xs, seen) ==
    IF xs = <<>> THEN <<>>
    ELSE IF Head(xs) \in seen THEN Dedupe(Tail(xs), seen)
         ELSE <<Head(xs)>> \o Dedupe(Tail(xs), seen \cup {Head(xs)})

RECURSIVE SumSizes(_)
SumSizes(fs) == IF fs = <<>> THEN 0 ELSE FileSize(Head(fs)) + SumSizes(Tail(fs))

\* the state in which run() of one of the two scripts is entered; the
\* dictionary original_ids is empty when the module has just been loaded
SizeInit ==
    /\ \E sc \in SizeScripts :
         sizer \in [script : {sc}, all : BOOLEAN, datatype : {"Image", "Dataset"},
                    ids : SeqsUpTo(RequestIds, MaxIds),
                    archived : IF sc = "Image_Size" THEN BOOLEAN ELSE {FALSE},
                    files : IF sc = "Image_Size"
                            THEN [ImageIds -> OrigFileLists]
                            ELSE {[i \in ImageIds |-> <<>>]},
                    arch : IF sc = "Image_Size"
                           THEN [ImageIds -> BOOLEAN]
                           ELSE {[i \in ImageIds |-> FALSE]},
                    selected : {<<>>}, images : {<<>>}, pos : {1},
                    processed : {<<>>}, count : {0}, total : {0},
                    total_archived : {0}, ok : {0}, original_ids : {{}},
                    stage : {"run"}]
    /\ exporter = NoExporter
    /\ duo = NoDuo
    /\ client = NoClient
    /\ probe = NoProbe
    /\ parse = NoParse
    /\ variant = "correlation"
    /\ params = ProbeParams("2")
    /\ RunEntry

\* the image list of run(): every image, or the selected objects without
\* the duplicates; a None among the objects makes `ds.listChildren()` or
\* `x.id` raise AttributeError
BuildImageList ==
    /\ sizer.stage = "run"
    /\ IF sizer.all
       THEN sizer' = [sizer EXCEPT !.selected = AllImages, !.images = AllImages,
                                   !.stage = "loop"]
       ELSE \E asNone \in BOOLEAN :
              LET objects == ObjectsOf(IF sizer.datatype = "Dataset"
                                       THEN DatasetIds ELSE ImageIds,
                                       sizer.ids, asNone)
                  listed == IF sizer.datatype = "Dataset"
                            THEN ExtendChildren(objects) ELSE objects
              IN IF \E i \in DOMAIN objects : objects[i] = NoneImg
                 THEN sizer' = [sizer EXCEPT !.stage = "raised"]
                 ELSE sizer' = [sizer EXCEPT !.selected = listed,
                                             !.images = Dedupe(listed, {}),
                                             !.stage = "loop"]
    /\ UNCHANGED <<exporter, duo, client, probe, parse, runVars>>

\* Image_Size: one pass of `for img in images` with process_image
ProcessImageSize ==
    /\ sizer.script = "Image_Size"
    /\ sizer.stage = "loop"
    /\ sizer.pos <= Len(sizer.images)
    /\ LET img == sizer.images[sizer.pos]
           bytes == ImageBytes(img)
           rows == sizer.files[img]
           queried == sizer.archived /\ sizer.arch[img]
           origFile == IF queried /\ rows # <<>>
                       THEN rows[Len(rows)] ELSE 0
           archive_bytes == IF origFile = 0 \/ origFile \in sizer.original_ids
                            THEN 0 ELSE SumSizes(rows)
       IN IF bytes_per_pixel(getPixelsType(img)) < 0
          THEN sizer' = [sizer EXCEPT !.stage = "raised"]
          ELSE sizer' =
                 [sizer EXCEPT
                    !.pos = @ + 1,
                    !.processed = Append(@, img),
                    !.original_ids = IF origFile = 0 THEN @ ELSE @ \cup {origFile},
                    !.count = IF bytes > 0 THEN @ + 1 ELSE @,
                    !.total = IF bytes > 0 THEN @ + bytes ELSE @,
                    !.total_archived = IF bytes > 0 THEN @ + archive_bytes ELSE @]
    /\ UNCHANGED <<exporter, duo, client, probe, parse, runVars>>

\* Check_Images: one pass of `for img in images` with process_image
ProcessImageCheck ==
    /\ sizer.script = "Check_Images"
    /\ sizer.stage = "loop"
    /\ sizer.pos <= Len(sizer.images)
    /\ LET img == sizer.images[sizer.pos]
       IN IF bytes_per_pixel(getPixelsType(img)) < 0
          THEN sizer' = [sizer EXCEPT !.stage = "raised"]
          ELSE sizer' = [sizer EXCEPT
                           !.pos = @ + 1,
                           !.processed = Append(@, img),
                           !.count = @ + 1,
                           !.ok = IF has_data(img) THEN @ + 1 ELSE @]
    /\ UNCHANGED <<exporter, duo, client, probe, parse, runVars>>

\* the end of the loop and `return (count, ...)`
SizeReturn ==
    /\ sizer.stage = "loop"
    /\ sizer.pos > Len(sizer.images)
    /\ sizer' = [sizer EXCEPT !.stage = "returned"]
    /\ UNCHANGED <<exporter, duo, client, probe, parse, runVars>>

SizeNext == BuildImageList \/ ProcessImageSize \/ ProcessImageCheck \/ SizeReturn

SpecSize == SizeInit /\ [][SizeNext]_vars

(***************************************************************************)
(* The images of a selection with duplicates                               *)
(***************************************************************************)
\* run() of one of the two scripts has returned
SizeReturned == sizer.stage = "returned"

\* the position of the first occurrence of x in xs
FirstAt(xs, x) ==
    CHOOSE i \in DOMAIN xs : xs[i] = x /\ \A j \in 1..(i - 1) : xs[j] # x

\* the number of calls of process_image for the image
TimesProcessed(x) ==
    Cardinality({i \in DOMAIN sizer.processed : sizer.processed[i] = x})

\* C36: in Image_Size.run and Check_Images.run with All_Images off, an image
\* that is reachable through several selected datasets, or listed several
\* times, is processed and counted exactly once, and the images are processed
\* in the order of their first occurrence in the selection.
C36_EachSelectedImageOnceInOrder ==
    (SizeReturned /\ ~sizer.all) =>
        /\ \A x \in SeqToSet(sizer.selected) : TimesProcessed(x) = 1
        /\ SeqToSet(sizer.processed) = SeqToSet(sizer.selected)
        /\ sizer.count = Cardinality(SeqToSet(sizer.selected))
        /\ \A i, j \in DOMAIN sizer.processed :
              i < j => FirstAt(sizer.selected, sizer.processed[i])
                         < FirstAt(sizer.selected, sizer.processed[j])

\* datasets 2 and 1 were selected: image 2 is in both, and was processed
\* once, before image 1
C36_Witness ==
    /\ SizeReturned
    /\ ~sizer.all
    /\ sizer.datatype = "Dataset"
    /\ sizer.ids = <<2, 1>>
    /\ sizer.selected = <<2, 1, 2>>
    /\ sizer.processed = <<2, 1>>
    /\ sizer.count = 2

(***************************************************************************)
(* The archived bytes of Image_Size                                        *)
(***************************************************************************)
\* the original files of the processed images whose archive was queried
FilesOfProcessed ==
    UNION {SeqToSet(sizer.files[x]) :
             x \in {y \in SeqToSet(sizer.processed) :
                      sizer.archived /\ sizer.arch[y]}}

RECURSIVE SizeOfAll(_)
SizeOfAll(F) ==
    IF F = {} THEN 0
    ELSE LET f == CHOOSE x \in F : TRUE
         IN FileSize(f) + SizeOfAll(F \ {f})

\* C37: in Image_Size the archived-bytes total returned by run() counts the
\* size of each distinct original file exactly once, also when several images
\* share an original file and when one image maps to more than one original
\* file.
C37_EachOriginalFileCountedOnce ==
    (SizeReturned /\ sizer.script = "Image_Size") =>
        sizer.total_archived = SizeOfAll(FilesOfProcessed)

====
